---- MODULE Spec2Model ----
(***************************************************************************)
(* A model of the API gateway of lsj66307/student (internal/gateway):      *)
(* the LoadBalancer (load_balancer.go), the Gateway's handlers, proxy step *)
(* and health-check loop (gateway.go) and the parts of the                 *)
(* FileServiceRegistry the gateway drives (service registry file), the     *)
(* ConfigManager and the middlewares.                                      *)
(*                                                                         *)
(* The specifications share the variables:                                 *)
(*   Spec         the LoadBalancer driven through its methods, one call    *)
(*                at a time;                                               *)
(*   SpecGateway  the Gateway process: seeding, management endpoints,      *)
(*                proxied requests;                                        *)
(*   SpecHealth   the Gateway's instances under the two health-check loops;*)
(*   SpecStrategy the weighted and least-connections strategies over       *)
(*                buckets of every shape;                                  *)
(*   SpecWeights  the weights of the instances the Gateway creates from    *)
(*                configuration entries and register requests;             *)
(*   SpecRegistry the FileServiceRegistry under Register and Unregister;   *)
(*   SpecWatch    the registry with subscribers: Watch, the notifications  *)
(*                of Register, Unregister and the health-check loop;       *)
(*   SpecCancel   subscriptions whose contexts are cancelled;              *)
(*   SpecShutdown the two health-check loops and the subscriptions around  *)
(*                Gateway.Shutdown;                                        *)
(*   SpecRate     requests through RateLimitMiddleware and proxyRequest;   *)
(*   SpecProxy    proxyRequest while instances are registered;             *)
(*   SpecChain    a request through the middleware chain of SetupRouter;   *)
(*   SpecClose    subscriptions around FileServiceRegistry.Close;          *)
(*   SpecAlias    the registry's slices and their backing arrays;          *)
(*   SpecLoad     the ConfigManager reloading a file that is rewritten;    *)
(*   SpecConfig   the ConfigManager under UpdateConfig, AddService and     *)
(*                RemoveService, with a reader of GetConfig;               *)
(*   SpecLock     GetInstance running while the health-check loops probe;  *)
(*   SpecProbes   the health-check loops, one probe goroutine at a time;   *)
(*   SpecConc     GetInstance / ReleaseConnection at the granularity of    *)
(*                their memory accesses, under the RWMutex as the code     *)
(*                takes it.                                                *)
(***************************************************************************)
EXTENDS Integers, Sequences, FiniteSets, TLC

\* ------------------------------------------------------------------ bounds

\* heap slots for *ServiceInstance objects
MaxInst == 3
\* most selections that are held at one time without having been released
MaxConn == 1
\* largest value of the wall clock (time.Now().Unix()) the model reaches
MaxClock == 3
\* length of the window of consecutive round-robin selections that is kept
MaxWindow == 4
\* proxied requests in flight at one time
MaxReq == 2
\* most selections held at one time in the Gateway, leaked ones included
MaxHeld == 2
\* instances the Gateway creates, seeded ones included
MaxGwInst == 2
\* goroutines calling the LoadBalancer at the same time
MaxProc == 2
\* GetInstance calls they make in all
MaxCalls == 3
\* largest weight of an instance whose selection by weight is examined
MaxWeight == 2
\* most selections held at one time while the strategies are examined
MaxLoad == 2
\* subscriptions Watch creates
MaxWatch == 2
\* instance ids the callers of the registry use for one service
MaxIDs == 2
\* the configured ceiling of requests per second
MaxRate == 2

\* consecutive failed probes of an instance the registry's loop goes through
MaxFail == 2
\* probe goroutines the two health-check loops start
MaxProbes == 3
\* heap slots for *GatewayConfig objects
MaxObj == 3
\* modification times the configuration file goes through
MaxMtime == 3
\* ConfigWatchers added to the ConfigManager
MaxCfgWatch == 1

\* ------------------------------------------------------------------ constants

RoundRobin == "round_robin"
Random == "random"
Weighted == "weighted"
LeastConn == "least_conn"
Strategies == {RoundRobin, Random, Weighted, LeastConn}

\* the nil *ServiceInstance
Nil == 0
\* the suffix of a config-seeded instance id ("%s-1")
SeedSuffix == 1
\* the weight setDefaults gives a service that declares none
DefaultWeight == 1

\* the service every proxy route forwards to, and one more name
ProxiedService == "student-api"
Services == {ProxiedService, "orders"}

Ptr == 1..MaxInst

\* the capacity of the channel Watch makes
WatchBuffer == 10

\* the zero time.Time
ZeroTime == 0

ErrNone == "none"
ErrNoInstances == "no available instances"
ErrNoHealthy == "no healthy instances"

VARIABLES
    inst,        \* the heap: Ptr -> ServiceInstance record
    nalloc,      \* number of ServiceInstance objects allocated so far
    lbServices,  \* LoadBalancer.services: service name -> sequence of Ptr
    counters,    \* LoadBalancer.counters: service name -> round-robin cursor
    strategy,    \* LoadBalancer.strategy
    last,        \* the last method call on the LoadBalancer and what it returned
    rrWindow,    \* the instances returned by the latest consecutive round-robin
                 \* selections made while the healthy set stayed the same
    gwServices,  \* Gateway.services (sync.Map): service name -> Ptr
    regServices, \* FileServiceRegistry.services: service name -> sequence of Ptr
    now,         \* time.Now().Unix()
    hcEnabled,   \* config.LoadBalancer.HealthCheck
    up,          \* Ptr -> whether the backend's health endpoint answers 200
    gwProbes,    \* instances with a probe of the gateway's loop in flight
    regProbes,   \* instances with a probe of the registry's loop in flight
    req,         \* the proxied requests in flight: slot -> position
    done,        \* the proxied request that returned last and its outcome
    unregd,      \* instances that were tracked for a service when the
                 \* management unregister call was made for it
    phase,       \* Ptr -> "up", "down" (the health endpoint stopped answering
                 \* 200) or "ticked" (and a gateway health-check tick followed)
    proc,        \* goroutine -> its position in GetInstance / ReleaseConnection
                 \* and its local variables
    acct,        \* Ptr -> the GetInstance calls that returned it and the
                 \* ReleaseConnection calls applied to it
    cursor0,     \* the round-robin cursor before the first GetInstance call
    started,     \* GetInstance calls begun
    unweighted,  \* the instances created from a request body or a
                 \* configuration entry that names no weight
    watchers,    \* FileServiceRegistry.watchers: service name -> sequence of
                 \* channels
    chans,       \* the channels Watch has made: buffer, closed or not, the
                 \* state of the subscription's context and goroutine
    nchan,       \* number of channels made so far
    regClosed,   \* FileServiceRegistry.ctx is cancelled
    gwCancelled, \* Gateway.ctx is cancelled
    gwStopped,   \* the Gateway's health-check goroutine has returned
    regStopped,  \* the registry's health-check goroutine has returned
    panicked,    \* a goroutine has panicked (send on or close of a closed
                 \* channel)
    arrivals,    \* requests that reached the gateway's router in the current
                 \* second
    admitted,    \* those of them RateLimitMiddleware passed on with c.Next()
    cfgFile,     \* the configuration file: its modification time and text
    cfgHeap,     \* the heap of GatewayConfig objects: Obj -> its fields
    cmConfig,    \* ConfigManager.config: the Obj it points to
    cmLastModified, \* ConfigManager.lastModified
    cmWatchers,  \* len(ConfigManager.watchers)
    cmReturn,    \* the last ConfigManager call: which, its error, the
                 \* OnConfigChanged goroutines it started
    held,        \* what the last GetConfig returned and the fields the
                 \* caller read through it at that time
    flights,     \* the probe goroutines of the two health-check loops, each
                 \* with the answer its request got, if it has one
    nprobe,      \* probe goroutines started so far
    nobs,        \* probe requests answered so far
    asOf,        \* Ptr -> which answer the instance's health state is from
    backing,     \* the arrays behind the slices of FileServiceRegistry.services
    narr,        \* number of such arrays allocated so far
    regArr,      \* the array the registry's slice for the service points into
    inbox,       \* the slices sent on a subscriber's channel, not yet received
    snapshot,    \* the slice the subscriber received last
    subscribed   \* Watch has been called for the service

lbVars == <<inst, nalloc, lbServices, counters, strategy>>
watchVars == <<watchers, chans, nchan, regClosed, gwCancelled, gwStopped, regStopped,
              panicked>>
rateVars == <<arrivals, admitted>>
cfgVars == <<cfgFile, cfgHeap, cmConfig, cmLastModified, cmWatchers, cmReturn, held>>
probeVars == <<flights, nprobe, nobs, asOf>>
aliasVars == <<backing, narr, regArr, inbox, snapshot, subscribed>>
extVars == <<cfgVars, probeVars, aliasVars>>
gwVars == <<gwServices, regServices, now, hcEnabled, up, gwProbes, regProbes, req,
            done, unregd, phase, unweighted, watchVars, rateVars, extVars>>
concVars == <<proc, acct, cursor0, started>>
vars == <<inst, nalloc, lbServices, counters, strategy, last, rrWindow,
          gwServices, regServices, now, hcEnabled, up, gwProbes, regProbes, req,
          done, unregd, phase, proc, acct, cursor0, started, unweighted,
          watchers, chans, nchan, regClosed, gwCancelled, gwStopped, regStopped,
          panicked, arrivals, admitted, cfgFile, cfgHeap, cmConfig,
          cmLastModified, cmWatchers, cmReturn, held, flights, nprobe, nobs,
          asOf, backing, narr, regArr, inbox, snapshot, subscribed>>

\* ------------------------------------------------------------------ ServiceInstance

Blank ==
    [id |-> <<"", 0>>, svc |-> "", urlOk |-> TRUE, weight |-> 0,
     healthy |-> FALSE, conn |-> 0, registerTime |-> ZeroTime,
     lastCheck |-> ZeroTime, failureCount |-> 0]

NewInstance(id, svc, urlOk, weight) ==
    [id |-> id, svc |-> svc, urlOk |-> urlOk, weight |-> weight,
     healthy |-> TRUE, conn |-> 0, registerTime |-> ZeroTime,
     lastCheck |-> ZeroTime, failureCount |-> 0]

InstanceID(s, n) == <<s, n>>

\* a call of a LoadBalancer method: what it returned, the value lb.rand.Intn
\* gave it and the Connections of the returned instance before the call
NoCall ==
    [op |-> "none", svc |-> "", res |-> Nil, err |-> ErrNone, before |-> 0,
     draw |-> 0]

\* the Authorization header of a request: the scheme with its blank, and
\* what follows it
NoAuth == [scheme |-> "", token |-> ""]

\* a request in flight: pc is "idle" (none), the middleware it stands
\* before, "admitted" (the global middlewares have passed it), "authorized",
\* "selected" or "forwarding"; inst is the instance GetInstance returned,
\* selects the number of GetInstance calls the request has made, trail the
\* middlewares that have called c.Next() on it
Req == 1..MaxReq

NoRequest ==
    [pc |-> "idle", inst |-> Nil, selects |-> 0, method |-> "", route |-> "",
     auth |-> NoAuth, trail |-> <<>>]

\* a proxied request that has returned: the instance GetInstance gave it, the
\* status written, the number of ReleaseConnection calls and of GetInstance
\* calls it made, the number of times it ran proxy.ServeHTTP and how the
\* last of them ended
NoneDone ==
    [inst |-> Nil, status |-> "none", releases |-> 0, selects |-> 0,
     forwards |-> 0, event |-> "none"]

\* a goroutine: pc is "idle", a position inside GetInstance ("filtered",
\* "counted", "picked", "loaded") or "holding" (GetInstance has returned sel
\* and ReleaseConnection is still to be called); list is its healthyInstances,
\* count and conn are the values it read from counters[serviceName] and from
\* sel.Connections
Proc == 1..MaxProc

IdleProc == [pc |-> "idle", list |-> <<>>, count |-> 0, sel |-> Nil, conn |-> 0]

NoAccount == [selected |-> 0, released |-> 0]

\* a channel of snapshots: queued is the number of snapshots sent and not
\* yet received, newest the services slice of the latest of them; ctx is
\* "live" or "done" (the context given to Watch), and stage is where the
\* goroutine Watch started stands: "waiting" for ctx.Done, "removed"
\* (removeWatcher has returned) or "closed" (it has closed the channel)
Chan == 1..MaxWatch

NoChan ==
    [svc |-> "", queued |-> 0, newest |-> <<>>, closed |-> FALSE, ctx |-> "live",
     stage |-> "waiting"]

\* ------------------------------------------------------------------ LoadBalancer

Bucket(s) == IF s \in DOMAIN lbServices THEN lbServices[s] ELSE <<>>

\* a filter that lets every instance of the bucket through
IsEligible_Unfiltered(i) == TRUE

\* GetInstance's filter: the instances of the bucket it may select
IsEligible(i) == i.healthy

HealthyInstances(instances) ==
    SelectSeq(instances, LAMBDA p : IsEligible(inst[p]))

\* early returns that do not test for an empty bucket
GetInstanceError_NoEmptyTest(exists, n, nHealthy) ==
    IF ~exists THEN ErrNoInstances
    ELSE IF nHealthy = 0 THEN ErrNoHealthy
    ELSE ErrNone

\* GetInstance's two early returns
GetInstanceError(exists, n, nHealthy) ==
    IF ~exists \/ n = 0 THEN ErrNoInstances
    ELSE IF nHealthy = 0 THEN ErrNoHealthy
    ELSE ErrNone

roundRobinIndex(count, n) == count % n

\* a cursor wrapped one past the number of healthy instances
roundRobinCursor_WrapsLate(count, n) == (count + 1) % (n + 1)

roundRobinCursor(count, n) == (count + 1) % n

RECURSIVE TotalWeight(_)
TotalWeight(instances) ==
    IF instances = <<>> THEN 0
    ELSE inst[Head(instances)].weight + TotalWeight(Tail(instances))

\* a walk that also stops where the cumulative weight equals the draw
RECURSIVE WeightedWalk_Inclusive(_, _, _)
WeightedWalk_Inclusive(instances, randomWeight, currentWeight) ==
    IF Len(instances) = 1 THEN Head(instances)
    ELSE IF randomWeight <= currentWeight + inst[Head(instances)].weight
         THEN Head(instances)
         ELSE WeightedWalk_Inclusive(Tail(instances), randomWeight,
                                     currentWeight + inst[Head(instances)].weight)

\* weighted's loop: the first instance whose cumulative weight exceeds the
\* draw, the last instance when the loop ends without one
RECURSIVE WeightedWalk(_, _, _)
WeightedWalk(instances, randomWeight, currentWeight) ==
    IF Len(instances) = 1 THEN Head(instances)
    ELSE IF randomWeight < currentWeight + inst[Head(instances)].weight
         THEN Head(instances)
         ELSE WeightedWalk(Tail(instances), randomWeight,
                           currentWeight + inst[Head(instances)].weight)

\* the values lb.rand.Intn can return for the active strategy
Draws(strat, instances) ==
    IF strat = Random THEN 0..(Len(instances) - 1)
    ELSE IF strat = Weighted
         THEN IF TotalWeight(instances) = 0 THEN 0..(Len(instances) - 1)
              ELSE 0..(TotalWeight(instances) - 1)
         ELSE {0}

weighted(instances, r) ==
    IF TotalWeight(instances) = 0 THEN instances[r + 1]
    ELSE WeightedWalk(instances, r, 0)

\* a scan that moves to a later instance on equal Connections
RECURSIVE leastScan_LastWins(_, _)
leastScan_LastWins(selected, rest) ==
    IF rest = <<>> THEN selected
    ELSE IF inst[Head(rest)].conn <= inst[selected].conn
         THEN leastScan_LastWins(Head(rest), Tail(rest))
         ELSE leastScan_LastWins(selected, Tail(rest))

\* leastConnections' loop over instances[1:]
RECURSIVE leastScan(_, _)
leastScan(selected, rest) ==
    IF rest = <<>> THEN selected
    ELSE IF inst[Head(rest)].conn < inst[selected].conn
         THEN leastScan(Head(rest), Tail(rest))
         ELSE leastScan(selected, Tail(rest))

leastConnections(instances) == leastScan(Head(instances), Tail(instances))

\* the instance the active strategy picks among the healthy ones
Pick(strat, count, instances, r) ==
    IF strat = RoundRobin THEN instances[roundRobinIndex(count, Len(instances)) + 1]
    ELSE IF strat = Random THEN instances[r + 1]
    ELSE IF strat = Weighted THEN weighted(instances, r)
    ELSE IF strat = LeastConn THEN leastConnections(instances)
    ELSE Head(instances)

\* connections held over the first n heap slots
RECURSIVE TotalConn(_, _)
TotalConn(f, n) == IF n = 0 THEN 0 ELSE f[n].conn + TotalConn(f, n - 1)

\* a decrement without the guard
ReleasedConnections_Unguarded(c) == c - 1

\* ReleaseConnection's guarded decrement
ReleasedConnections(c) == IF c > 0 THEN c - 1 ELSE c

\* index of the first instance of the sequence with the given id, 0 when none
RECURSIVE FirstWithID(_, _, _)
FirstWithID(instances, id, i) ==
    IF i > Len(instances) THEN 0
    ELSE IF inst[instances[i]].id = id THEN i
    ELSE FirstWithID(instances, id, i + 1)

Range(seq) == {seq[i] : i \in 1..Len(seq)}

PosIn(seq, p) == CHOOSE i \in 1..Len(seq) : seq[i] = p

RemoveAt(seq, i) == SubSeq(seq, 1, i - 1) \o SubSeq(seq, i + 1, Len(seq))

\* effect of LoadBalancer.RegisterService on services and counters
LBRegistered(s, p) ==
    /\ lbServices' = IF s \in DOMAIN lbServices
                     THEN [lbServices EXCEPT ![s] = Append(@, p)]
                     ELSE lbServices @@ (s :> <<p>>)
    /\ counters' = IF s \in DOMAIN lbServices THEN counters
                   ELSE [counters EXCEPT ![s] = 0]

\* the window of round-robin selections survives a step only while the
\* strategy and the healthy instances of the service stay the same
WindowKept(s) ==
    rrWindow' = IF /\ strategy' = RoundRobin
                   /\ HealthyInstances(Bucket(s))
                        = SelectSeq(IF s \in DOMAIN lbServices' THEN lbServices'[s] ELSE <<>>,
                                    LAMBDA p : IsEligible(inst'[p]))
                THEN rrWindow ELSE <<>>

Slide(w, p) ==
    IF Len(w) < MaxWindow THEN Append(w, p) ELSE Append(Tail(w), p)

\* ------------------------------------------------------------------ Spec: actions

\* LoadBalancer.RegisterService(serviceName, instance) with a new instance,
\* which the caller names after the service and a number of its own
RegisterService(s, n, w) ==
    /\ nalloc < MaxInst
    /\ LET p == nalloc + 1 IN
         /\ nalloc' = p
         /\ inst' = [inst EXCEPT ![p] = NewInstance(InstanceID(s, n), s, TRUE, w)]
         /\ LBRegistered(s, p)
         /\ last' = [NoCall EXCEPT !.op = "RegisterService", !.svc = s, !.res = p]
    /\ UNCHANGED strategy
    /\ WindowKept(s)
    /\ UNCHANGED <<gwVars, concVars>>

\* LoadBalancer.UnregisterService(serviceName, instanceID)
UnregisterService(s, id) ==
    /\ lbServices' =
         IF s \notin DOMAIN lbServices THEN lbServices
         ELSE LET i == FirstWithID(lbServices[s], id, 1) IN
              IF i = 0 THEN lbServices
              ELSE [lbServices EXCEPT ![s] = RemoveAt(@, i)]
    /\ last' = [NoCall EXCEPT !.op = "UnregisterService", !.svc = s]
    /\ UNCHANGED <<inst, nalloc, counters, strategy>>
    /\ WindowKept(s)
    /\ UNCHANGED <<gwVars, concVars>>

\* LoadBalancer.GetInstance(serviceName): its effect on the LoadBalancer and
\* what it returns (last'.res, last'.err)
GetInstanceCall(s, cap) ==
    LET instances == Bucket(s)
        healthyInstances == HealthyInstances(instances)
        err == GetInstanceError(s \in DOMAIN lbServices, Len(instances),
                                Len(healthyInstances))
    IN  IF err # ErrNone
        THEN /\ last' = [NoCall EXCEPT !.op = "GetInstance", !.svc = s, !.err = err]
             /\ UNCHANGED lbVars
        ELSE \E r \in Draws(strategy, healthyInstances) :
             LET p == Pick(strategy, counters[s], healthyInstances, r) IN
               /\ TotalConn(inst, MaxInst) < cap
               /\ counters' = IF strategy = RoundRobin
                              THEN [counters EXCEPT ![s] =
                                      roundRobinCursor(@, Len(healthyInstances))]
                              ELSE counters
               /\ inst' = [inst EXCEPT ![p].conn = @ + 1]
               /\ last' = [NoCall EXCEPT !.op = "GetInstance", !.svc = s, !.res = p,
                                         !.before = inst[p].conn, !.draw = r]
               /\ UNCHANGED <<nalloc, lbServices, strategy>>

\* LoadBalancer.GetInstance(serviceName), called on its own
GetInstance(s) ==
    /\ GetInstanceCall(s, MaxConn)
    /\ rrWindow' = IF last'.err # ErrNone THEN rrWindow
                   ELSE IF strategy = RoundRobin THEN Slide(rrWindow, last'.res)
                   ELSE <<>>
    /\ UNCHANGED <<gwVars, concVars>>

\* LoadBalancer.ReleaseConnection(instance)
ReleaseConnection(p) ==
    /\ p <= nalloc
    /\ inst' = [inst EXCEPT ![p].conn = ReleasedConnections(@)]
    /\ last' = [NoCall EXCEPT !.op = "ReleaseConnection", !.res = p,
                              !.before = inst[p].conn]
    /\ UNCHANGED <<nalloc, lbServices, counters, strategy, rrWindow>>
    /\ UNCHANGED <<gwVars, concVars>>

\* LoadBalancer.UpdateInstanceHealth(serviceName, instanceID, healthy, responseTime)
UpdateInstanceHealth(s, id, h) ==
    /\ inst' =
         IF s \notin DOMAIN lbServices THEN inst
         ELSE LET i == FirstWithID(lbServices[s], id, 1) IN
              IF i = 0 THEN inst
              ELSE [inst EXCEPT ![lbServices[s][i]].healthy = h]
    /\ last' = [NoCall EXCEPT !.op = "UpdateInstanceHealth", !.svc = s]
    /\ UNCHANGED <<nalloc, lbServices, counters, strategy>>
    /\ WindowKept(s)
    /\ UNCHANGED <<gwVars, concVars>>

\* LoadBalancer.SetStrategy(strategy)
SetStrategy(st) ==
    /\ strategy' = st
    /\ last' = [NoCall EXCEPT !.op = "SetStrategy"]
    /\ UNCHANGED <<inst, nalloc, lbServices, counters>>
    /\ WindowKept(ProxiedService)
    /\ UNCHANGED <<gwVars, concVars>>

\* ------------------------------------------------------------------ GatewayConfig

Obj == 1..MaxObj

\* durations are in seconds
DefaultPort == 8080
DefaultTimeout == 30
DefaultRateLimit == 1000
DefaultStrategy == "round_robin"
DefaultCheckInterval == 30
DefaultCheckTimeout == 5
MaxPort == 65535

\* the zero value of a key's type
Zero(key) == IF key \in {"strategy", "url"} THEN "" ELSE 0

\* a key the configuration file names, with its value
Named(v) == [set |-> TRUE, v |-> v]

\* a key the configuration file does not name
Absent(key) == [set |-> FALSE, v |-> Zero(key)]

\* no entries under services
NoEntries == [n \in {} |-> Nil]

\* a configuration file that names every key
FullText ==
    [yaml |-> TRUE,
     port |-> Named(9090), timeout |-> Named(10), rate_limit |-> Named(500),
     services |-> [set |-> TRUE,
                   v |-> [n \in {ProxiedService} |->
                            [url |-> Named("http://student"), weight |-> Named(2)]]],
     strategy |-> Named("weighted"), check_interval |-> Named(10),
     check_timeout |-> Named(2)]

\* a file yaml.Unmarshal refuses
Garbage == [FullText EXCEPT !.yaml = FALSE]

\* the texts of the configuration file
ConfigTexts ==
    {Garbage, FullText}
    \cup {[FullText EXCEPT !.port = v] : v \in {Absent("port"), Named(MaxPort + 1)}}
    \cup {[FullText EXCEPT !.timeout = v] : v \in {Absent("timeout"), Named(-1)}}
    \cup {[FullText EXCEPT !.rate_limit = v] : v \in {Absent("rate_limit"), Named(-1)}}
    \cup {[FullText EXCEPT !.strategy = Absent("strategy")],
          [FullText EXCEPT !.check_interval = Absent("check_interval")],
          [FullText EXCEPT !.check_timeout = Absent("check_timeout")],
          [FullText EXCEPT !.services = [set |-> FALSE, v |-> NoEntries]]}
    \cup {[FullText EXCEPT !.services.v[ProxiedService].url = Absent("url")]}
    \cup {[FullText EXCEPT !.services.v[ProxiedService].weight = v] :
             v \in {Absent("weight"), Named(-1)}}

\* a zeroed GatewayConfig; its Services is the nil map
ZeroConfig ==
    [Port |-> 0, Timeout |-> 0, RateLimit |-> 0,
     Services |-> [nil |-> TRUE, m |-> NoEntries],
     Strategy |-> "", CheckInterval |-> 0, CheckTimeout |-> 0]

\* yaml.Unmarshal into a zeroed GatewayConfig: a key the file does not name
\* leaves the zero value
Unmarshal(text) ==
    [Port |-> text.port.v,
     Timeout |-> text.timeout.v,
     RateLimit |-> text.rate_limit.v,
     Services |-> [nil |-> ~text.services.set,
                   m |-> [n \in DOMAIN text.services.v |->
                            [URL |-> text.services.v[n].url.v,
                             Weight |-> text.services.v[n].weight.v]]],
     Strategy |-> text.strategy.v,
     CheckInterval |-> text.check_interval.v,
     CheckTimeout |-> text.check_timeout.v]

\* yaml.Marshal: every key is written; the nil map is written as {}
Marshal(config) ==
    [yaml |-> TRUE,
     port |-> Named(config.Port), timeout |-> Named(config.Timeout),
     rate_limit |-> Named(config.RateLimit),
     services |-> [set |-> TRUE,
                   v |-> [n \in DOMAIN config.Services.m |->
                            [url |-> Named(config.Services.m[n].URL),
                             weight |-> Named(config.Services.m[n].Weight)]]],
     strategy |-> Named(config.Strategy),
     check_interval |-> Named(config.CheckInterval),
     check_timeout |-> Named(config.CheckTimeout)]

ErrValidation == "config validation failed"
ErrParse == "failed to parse YAML config"
ErrSave == "failed to save config"
ErrNoServices == "no services configured"

\* validateConfig accepts the configuration
validateConfig(config) ==
    /\ ~(config.Port <= 0 \/ config.Port > MaxPort)
    /\ ~(config.Timeout <= 0)
    /\ ~(config.RateLimit < 0)
    /\ \A n \in DOMAIN config.Services.m :
          /\ config.Services.m[n].URL # ""
          /\ ~(config.Services.m[n].Weight < 0)

\* setDefaults
setDefaults(config) ==
    [Port |-> IF config.Port = 0 THEN DefaultPort ELSE config.Port,
     Timeout |-> IF config.Timeout = 0 THEN DefaultTimeout ELSE config.Timeout,
     RateLimit |-> IF config.RateLimit = 0 THEN DefaultRateLimit ELSE config.RateLimit,
     Services |-> [config.Services EXCEPT !.m =
                     [n \in DOMAIN config.Services.m |->
                        IF config.Services.m[n].Weight = 0
                        THEN [config.Services.m[n] EXCEPT !.Weight = DefaultWeight]
                        ELSE config.Services.m[n]]],
     Strategy |-> IF config.Strategy = "" THEN DefaultStrategy ELSE config.Strategy,
     CheckInterval |-> IF config.CheckInterval = 0 THEN DefaultCheckInterval
                       ELSE config.CheckInterval,
     CheckTimeout |-> IF config.CheckTimeout = 0 THEN DefaultCheckTimeout
                      ELSE config.CheckTimeout]

\* no GetConfig has returned
NoHeld == [ptr |-> Nil, seen |-> ZeroConfig]

\* no ConfigManager call has returned
NoReturn == [op |-> "", err |-> ErrNone, notified |-> 0]

\* no ConfigManager has been built: no file has been read, no GatewayConfig
\* has been allocated and no caller holds one
NoConfigManager ==
    /\ cfgFile = [mtime |-> ZeroTime, text |-> <<>>]
    /\ cfgHeap = <<>>
    /\ cmConfig = Nil
    /\ cmLastModified = ZeroTime
    /\ cmWatchers = 0
    /\ cmReturn = NoReturn
    /\ held = [ptr |-> Nil, seen |-> <<>>]

\* NewFileServiceRegistry's watchers, and contexts that are live
NoWatchers ==
    /\ watchers = <<>>
    /\ chans = [c \in Chan |-> NoChan]
    /\ nchan = 0
    /\ regClosed = FALSE
    /\ gwCancelled = FALSE
    /\ gwStopped = FALSE
    /\ regStopped = FALSE
    /\ panicked = FALSE

\* no request has arrived
NoTraffic == arrivals = 0 /\ admitted = 0

\* no Gateway around the LoadBalancer, no request in flight
NoServing ==
    /\ gwServices = <<>>
    /\ regServices = <<>>
    /\ now = SeedSuffix + 1
    /\ hcEnabled = FALSE
    /\ up = [p \in Ptr |-> TRUE]
    /\ gwProbes = {}
    /\ regProbes = {}
    /\ req = [r \in Req |-> NoRequest]
    /\ done = NoneDone
    /\ unregd = {}
    /\ phase = [p \in Ptr |-> "up"]
    /\ unweighted = {}
    /\ NoWatchers
    /\ NoTraffic

\* no probe goroutine has been started
NoFlights ==
    /\ flights = {}
    /\ nprobe = 0
    /\ nobs = 0
    /\ asOf = [p \in Ptr |-> 0]

\* a slice that points into no array; seen is what its holder read in it
\* when it got it
NoSlice == [arr |-> Nil, len |-> 0, seen |-> <<>>]

\* NewFileServiceRegistry's empty services map, seen as slices and arrays
NoSlices ==
    /\ backing = [a \in Ptr |-> <<>>]
    /\ narr = 0
    /\ regArr = Nil
    /\ inbox = <<>>
    /\ snapshot = NoSlice
    /\ subscribed = FALSE

\* no Gateway around the LoadBalancer
NoGateway ==
    /\ NoServing
    /\ NoConfigManager
    /\ NoFlights
    /\ NoSlices

\* no goroutine inside the LoadBalancer
NoCallers ==
    /\ proc = [g \in Proc |-> IdleProc]
    /\ acct = [p \in Ptr |-> NoAccount]
    /\ cursor0 = 0
    /\ started = 0

Init ==
    /\ inst = [p \in Ptr |-> Blank]
    /\ nalloc = 0
    /\ lbServices = <<>>
    /\ counters = [s \in Services |-> 0]
    /\ strategy \in Strategies
    /\ last = NoCall
    /\ rrWindow = <<>>
    /\ NoGateway
    /\ NoCallers

Next ==
    \/ RegisterService(ProxiedService, nalloc + 1, DefaultWeight)
    \/ \E n \in Ptr :
         UnregisterService(ProxiedService, InstanceID(ProxiedService, n))
    \/ GetInstance(ProxiedService)
    \/ \E p \in Ptr : ReleaseConnection(p)
    \/ \E n \in Ptr, h \in BOOLEAN :
         UpdateInstanceHealth(ProxiedService, InstanceID(ProxiedService, n), h)
    \/ \E st \in Strategies : SetStrategy(st)

Spec == Init /\ [][Next]_vars

\* ------------------------------------------------------------------ Gateway

\* the weight field of a request body or of a service of the configuration
\* file: absent, or a number
AbsentWeight == [set |-> FALSE, value |-> 0]

ExplicitWeight(w) == [set |-> TRUE, value |-> w]

WeightFields == {AbsentWeight} \cup {ExplicitWeight(w) : w \in (-1)..DefaultWeight}

\* the Weight the decoder (yaml.Unmarshal, ShouldBindJSON) leaves in the
\* struct: the zero value for an absent field
DecodedWeight(f) == IF f.set THEN f.value ELSE 0

ServiceOrder == <<ProxiedService, "orders">>

\* the services a configuration declares, in the order they are seeded
Seeds(cfg) == SelectSeq(ServiceOrder, LAMBDA s : s \in cfg)

\* sync.Map Store and Delete
Store(m, k, v) == IF k \in DOMAIN m THEN [m EXCEPT ![k] = v] ELSE m @@ (k :> v)

Delete(m, k) == [x \in (DOMAIN m) \ {k} |-> m[x]]

\* a notification that reaches nobody when one inbox is full
Notified_AllOrNothing(ch, ws, services) ==
    [c \in Chan |->
       IF /\ c \in Range(ws)
          /\ \A d \in Range(ws) : ~ch[d].closed /\ ch[d].queued < WatchBuffer
       THEN [ch[c] EXCEPT !.queued = @ + 1, !.newest = services]
       ELSE ch[c]]

\* notifyWatchers(serviceName, services): a send to each channel of the
\* service that has room; a send on a closed channel panics
Notified(ch, ws, services) ==
    [c \in Chan |->
       IF c \in Range(ws) /\ ~ch[c].closed /\ ch[c].queued < WatchBuffer
       THEN [ch[c] EXCEPT !.queued = @ + 1, !.newest = services]
       ELSE ch[c]]

WatchersOf(s) == IF s \in DOMAIN watchers THEN watchers[s] ELSE <<>>

notifyWatchers(s, services) ==
    /\ chans' = Notified(chans, WatchersOf(s), services)
    /\ panicked' = (panicked \/ \E c \in Range(WatchersOf(s)) : chans[c].closed)

\* a Register that appends whether or not the id is in the bucket
RegistryRegistered_Appends(s, p, id) ==
    regServices' = Store(regServices, s,
                         Append(IF s \in DOMAIN regServices THEN regServices[s] ELSE <<>>,
                                p))

\* effect of FileServiceRegistry.Register on services, for a new instance p
\* with the given id: an instance of the bucket with that id is replaced
RegistryRegistered(s, p, id) ==
    LET services == IF s \in DOMAIN regServices THEN regServices[s] ELSE <<>>
        i == FirstWithID(services, id, 1)
    IN  regServices' = IF i = 0 THEN Store(regServices, s, Append(services, p))
                       ELSE [regServices EXCEPT ![s][i] = p]

\* the body shared by Gateway.registerService and Gateway.RegisterService
GatewayRegistered(s, urlOk, w) ==
    /\ nalloc < MaxGwInst
    /\ LET p == nalloc + 1
           id == InstanceID(s, now)
       IN  /\ nalloc' = p
           /\ inst' = [inst EXCEPT ![p] =
                         [NewInstance(id, s, urlOk, w)
                            EXCEPT !.registerTime = now, !.lastCheck = now]]
           /\ LBRegistered(s, p)
           /\ RegistryRegistered(s, p, id)
           /\ notifyWatchers(s, regServices'[s])
           /\ gwServices' = Store(gwServices, s, p)
    /\ UNCHANGED <<concVars, extVars, rateVars, watchers, nchan, regClosed, gwCancelled, gwStopped, regStopped, strategy, last, rrWindow, now, hcEnabled, up, gwProbes, regProbes,
                   req, done, unregd, phase>>

\* POST /gateway/services/:name/register with a body that binds, a URL that
\* url.Parse accepts and the given weight field
registerServiceWith(s, f) ==
    /\ GatewayRegistered(s, TRUE, DecodedWeight(f))
    /\ unweighted' = IF f.set THEN unweighted ELSE unweighted \cup {nalloc + 1}

\* the same with a body that names the weight 1
registerService(s) == registerServiceWith(s, ExplicitWeight(DefaultWeight))

\* Gateway.RegisterService(serviceName, serviceURL, weight)
GatewayRegisterService(s, urlOk) ==
    /\ GatewayRegistered(s, urlOk, DefaultWeight)
    /\ unweighted' = unweighted

\* DELETE /gateway/services/:name/unregister
unregisterService(s) ==
    /\ gwServices' = Delete(gwServices, s)
    /\ unregd' = unregd \cup Range(Bucket(s))
    /\ UNCHANGED <<concVars, extVars, rateVars, watchVars, unweighted, lbVars, last, rrWindow, regServices, now, hcEnabled, up, gwProbes,
                   regProbes, req, done, phase>>

\* Gateway.proxyRequest up to the return of GetInstance, 503 when it fails,
\* for a request standing at pc
ProxySelectAt(r, pc) ==
    /\ req[r].pc = pc
    /\ GetInstanceCall(ProxiedService, MaxHeld)
    /\ IF last'.err # ErrNone
       THEN /\ done' = [NoneDone EXCEPT !.status = "503", !.selects = 1]
            /\ req' = [req EXCEPT ![r] = NoRequest]
       ELSE /\ req' = [req EXCEPT ![r].pc = "selected", ![r].inst = last'.res,
                                  ![r].selects = 1]
            /\ done' = done
    /\ UNCHANGED <<concVars, extVars, rateVars, watchVars, unweighted, rrWindow, gwServices, regServices, now, hcEnabled, up, gwProbes,
                   regProbes, unregd, phase>>

\* proxyRequest on a request the middlewares have passed without a trace
ProxySelect(r) == ProxySelectAt(r, "idle")

\* Gateway.proxyRequest: url.Parse of the instance's URL, 500 and return when
\* it fails
ProxyParse(r) ==
    /\ req[r].pc = "selected"
    /\ IF inst[req[r].inst].urlOk
       THEN /\ req' = [req EXCEPT ![r].pc = "forwarding"]
            /\ done' = done
       ELSE /\ req' = [req EXCEPT ![r] = NoRequest]
            /\ done' = [NoneDone EXCEPT !.inst = req[r].inst, !.status = "500",
                                        !.selects = req[r].selects]
    /\ UNCHANGED <<concVars, extVars, rateVars, watchVars, unweighted, lbVars, last, rrWindow, gwServices, regServices, now, hcEnabled,
                   up, gwProbes, regProbes, unregd, phase>>

\* how proxy.ServeHTTP ends: the backend answered, the round trip to the
\* backend failed, or the copy of the response to the client was aborted
ForwardEvents == {"answered", "transport error", "aborted"}

\* a gateway that passes a failed round trip to the client as a success
ForwardStatus_Masked(event) ==
    IF event = "aborted" THEN "aborted" ELSE "200"

\* the status the client is sent: the backend's own (200 here), the 502 of
\* proxyErrorHandler, or none
ForwardStatus(event) ==
    CASE event = "answered" -> "200"
      [] event = "transport error" -> "502"
      [] OTHER -> "aborted"

\* Gateway.proxyRequest from proxy.ServeHTTP to the return, where the deferred
\* ReleaseConnection runs
ProxyForward(r, event) ==
    /\ req[r].pc = "forwarding"
    /\ inst' = [inst EXCEPT ![req[r].inst].conn = ReleasedConnections(@)]
    /\ req' = [req EXCEPT ![r] = NoRequest]
    /\ done' = [inst |-> req[r].inst, status |-> ForwardStatus(event),
                 releases |-> 1, selects |-> req[r].selects, forwards |-> 1,
                 event |-> event]
    /\ UNCHANGED <<concVars, extVars, rateVars, watchVars, unweighted, nalloc, lbServices, counters, strategy, last, rrWindow, gwServices,
                   regServices, now, hcEnabled, up, gwProbes, regProbes, unregd, phase>>

\* a second of wall-clock time passes
ClockTick ==
    /\ now < MaxClock
    /\ now' = now + 1
    /\ arrivals' = 0
    /\ admitted' = 0
    /\ UNCHANGED <<concVars, extVars, watchVars, unweighted, lbVars, last, rrWindow, gwServices, regServices, hcEnabled, up,
                   gwProbes, regProbes, req, done, unregd, phase>>

\* a backend's health endpoint stops, or starts again, answering 200
BackendFlip(p) ==
    /\ p <= nalloc
    /\ up' = [up EXCEPT ![p] = ~@]
    /\ phase' = [phase EXCEPT ![p] = IF up[p] THEN "down" ELSE "up"]
    /\ UNCHANGED <<concVars, extVars, rateVars, watchVars, unweighted, lbVars, last, rrWindow, gwServices, regServices, now, hcEnabled,
                   gwProbes, regProbes, req, done, unregd>>

\* the instances Gateway.performHealthChecks ranges over
GatewayProbed == {gwServices[s] : s \in DOMAIN gwServices}

\* a tick of the Gateway's health-check loop: performHealthChecks starts one
\* checkServiceHealth goroutine per entry of Gateway.services
GatewayTick ==
    /\ hcEnabled
    /\ ~gwStopped
    /\ gwProbes' = gwProbes \cup GatewayProbed
    /\ phase' = [p \in Ptr |-> IF phase[p] = "down" THEN "ticked" ELSE phase[p]]
    /\ UNCHANGED <<concVars, extVars, rateVars, watchVars, unweighted, lbVars, last, rrWindow, gwServices, regServices, now, hcEnabled,
                   up, regProbes, req, done, unregd>>

\* what a GET of the instance's health URL yields
ProbeSucceeds(p) == up[p] /\ inst[p].urlOk

\* Gateway.checkServiceHealth: the GET and the write of instance.Healthy
checkServiceHealth(p) ==
    /\ p \in gwProbes
    /\ gwProbes' = gwProbes \ {p}
    /\ inst' = [inst EXCEPT ![p].healthy = ProbeSucceeds(p),
                            ![p].lastCheck = IF inst[p].urlOk THEN now ELSE @]
    /\ UNCHANGED <<concVars, extVars, rateVars, watchVars, unweighted, nalloc, lbServices, counters, strategy, last, rrWindow, gwServices,
                   regServices, now, hcEnabled, up, regProbes, req, done, unregd, phase>>

\* the instances FileServiceRegistry.performHealthChecks ranges over
RegistryProbed == UNION {Range(regServices[s]) : s \in DOMAIN regServices}

\* a tick of the registry's health-check loop
RegistryTick ==
    /\ ~regStopped
    /\ \A p \in RegistryProbed : inst[p].failureCount < MaxFail
    /\ regProbes' = regProbes \cup RegistryProbed
    /\ UNCHANGED <<concVars, extVars, rateVars, watchVars, unweighted, lbVars, last, rrWindow, gwServices, regServices, now, hcEnabled,
                   up, gwProbes, req, done, unregd, phase>>

\* the goroutine FileServiceRegistry.performHealthChecks starts for one
\* instance: HealthCheck and, under fsr.mu, the writes of svc.LastCheck,
\* svc.Healthy and svc.FailureCount
RegistryProbe(p) ==
    /\ p \in regProbes
    /\ regProbes' = regProbes \ {p}
    /\ inst' = [inst EXCEPT ![p].healthy = ProbeSucceeds(p), ![p].lastCheck = now,
                            ![p].failureCount = IF ProbeSucceeds(p) THEN 0 ELSE @ + 1]
    /\ IF inst[p].healthy # ProbeSucceeds(p)
       THEN notifyWatchers(inst[p].svc,
                           IF inst[p].svc \in DOMAIN regServices
                           THEN regServices[inst[p].svc] ELSE <<>>)
       ELSE UNCHANGED <<chans, panicked>>
    /\ UNCHANGED <<concVars, extVars, rateVars, watchers, nchan, regClosed, gwCancelled, gwStopped, regStopped, unweighted, nalloc, lbServices, counters, strategy, last, rrWindow, gwServices,
                   regServices, now, hcEnabled, up, gwProbes, req, done, unregd, phase>>

\* the strategies the configurations of the model name
ConfigStrategies == {RoundRobin, Random}

\* NewGateway: the LoadBalancer with the configured strategy, initServices
\* over the declared services, whose weight fields are among fields, an
\* empty registry
NewGatewayFrom(healthCheck, fields) ==
    \E cfg \in SUBSET Services :
    \E urls \in [1..Len(Seeds(cfg)) -> BOOLEAN] :
    \E fs \in [1..Len(Seeds(cfg)) -> fields] :
       /\ nalloc = Len(Seeds(cfg))
       /\ inst = [p \in Ptr |->
                    IF p <= Len(Seeds(cfg))
                    THEN [NewInstance(InstanceID(Seeds(cfg)[p], SeedSuffix), "",
                                      urls[p], DecodedWeight(fs[p]))
                            EXCEPT !.lastCheck = SeedSuffix + 1]
                    ELSE Blank]
       /\ unweighted = {p \in 1..Len(Seeds(cfg)) : ~fs[p].set}
       /\ lbServices = [s \in cfg |-> <<PosIn(Seeds(cfg), s)>>]
       /\ gwServices = [s \in cfg |-> PosIn(Seeds(cfg), s)]
       /\ counters = [s \in Services |-> 0]
       /\ strategy \in ConfigStrategies
       /\ hcEnabled = healthCheck
       /\ last = NoCall
       /\ rrWindow = <<>>
       /\ regServices = <<>>
       /\ now = SeedSuffix + 1
       /\ up = [p \in Ptr |-> TRUE]
       /\ gwProbes = {}
       /\ regProbes = {}
       /\ req = [r \in Req |-> NoRequest]
       /\ done = NoneDone
       /\ unregd = {}
       /\ phase = [p \in Ptr |-> "up"]
       /\ NoCallers
       /\ NoWatchers
       /\ NoTraffic
       /\ NoConfigManager
       /\ NoFlights
       /\ NoSlices

\* NewGateway on a configuration whose services name the weight 1
NewGateway(healthCheck) ==
    NewGatewayFrom(healthCheck, {ExplicitWeight(DefaultWeight)})

\* ------------------------------------------------------------------ SpecGateway
\* the Gateway serving requests and management calls, health checking off

InitGateway == NewGateway(FALSE)

NextGateway ==
    \/ \E s \in Services : registerService(s)
    \/ \E s \in Services, urlOk \in BOOLEAN : GatewayRegisterService(s, urlOk)
    \/ \E s \in Services : unregisterService(s)
    \/ \E r \in Req : ProxySelect(r)
    \/ \E r \in Req : ProxyParse(r)
    \/ \E r \in Req, event \in ForwardEvents : ProxyForward(r, event)
    \/ ClockTick

SpecGateway == InitGateway /\ [][NextGateway]_vars

\* ------------------------------------------------------------------ SpecHealth
\* the Gateway's instances under the two health-check loops

InitHealth == NewGateway(TRUE)

NextHealth ==
    \/ \E s \in Services : registerService(s)
    \/ \E s \in Services : unregisterService(s)
    \/ \E p \in Ptr : BackendFlip(p)
    \/ GatewayTick
    \/ \E p \in Ptr : checkServiceHealth(p)
    \/ RegistryTick
    \/ \E p \in Ptr : RegistryProbe(p)

SpecHealth == InitHealth /\ [][NextHealth]_vars

\* ------------------------------------------------------------------ SpecWeights
\* the weights of the instances the Gateway creates, from configurations
\* and register requests with every weight field

InitWeights == NewGatewayFrom(FALSE, WeightFields)

NextWeights ==
    \/ \E s \in Services, f \in WeightFields : registerServiceWith(s, f)
    \/ \E s \in Services : unregisterService(s)
    \/ ClockTick

SpecWeights == InitWeights /\ [][NextWeights]_vars

\* ------------------------------------------------------------------ SpecRegistry
\* the FileServiceRegistry driven through Register and Unregister, one call
\* at a time

RegBucket(s) == IF s \in DOMAIN regServices THEN regServices[s] ELSE <<>>

\* the instance a caller hands to Register: a new object with the given id,
\* healthy flag and URL, or an object it has handed over before, with the
\* URL it has now
RegisterArgument(p, n, h, urlOk) ==
    IF p <= nalloc THEN [inst[p] EXCEPT !.urlOk = urlOk]
    ELSE [NewInstance(InstanceID(ProxiedService, n), ProxiedService, urlOk,
                      DefaultWeight) EXCEPT !.healthy = h]

\* FileServiceRegistry.Register(ctx, service)
Register(p, n, h, urlOk) ==
    /\ ~panicked
    /\ p <= nalloc + 1
    /\ p <= nalloc => (n = 1 /\ h)
    /\ LET service == RegisterArgument(p, n, h, urlOk)
           s == service.svc
           i == FirstWithID(RegBucket(s), service.id, 1)
       IN  /\ nalloc' = IF p <= nalloc THEN nalloc ELSE p
           /\ inst' = [inst EXCEPT ![p] =
                         IF i # 0 THEN service
                         ELSE [service EXCEPT !.registerTime = now, !.lastCheck = now,
                                              !.healthy = TRUE]]
           /\ RegistryRegistered(s, p, service.id)
           /\ notifyWatchers(s, regServices'[s])
           /\ last' = [NoCall EXCEPT !.op = "Register", !.svc = s, !.res = p,
                                     !.before = Len(RegBucket(s))]
    /\ UNCHANGED <<lbServices, counters, strategy, rrWindow, gwServices, now, hcEnabled,
                   up, gwProbes, regProbes, req, done, unregd, phase, unweighted,
                   watchers, nchan, regClosed, gwCancelled, gwStopped, regStopped,
                   concVars, extVars, rateVars>>

\* the bucket that holds the first instance with the id, in the order the
\* buckets are visited; "" when none does
HolderOf(id) ==
    IF \E s \in DOMAIN regServices : FirstWithID(regServices[s], id, 1) # 0
    THEN CHOOSE s \in DOMAIN regServices : FirstWithID(regServices[s], id, 1) # 0
    ELSE ""

\* FileServiceRegistry.Unregister(ctx, serviceID)
Unregister(id) ==
    /\ ~panicked
    /\ LET s == HolderOf(id) IN
       IF s = ""
       THEN /\ last' = [NoCall EXCEPT !.op = "Unregister", !.err = "service not found"]
            /\ UNCHANGED <<regServices, chans, panicked>>
       ELSE LET services == RemoveAt(regServices[s], FirstWithID(regServices[s], id, 1)) IN
            /\ regServices' = IF services = <<>> THEN Delete(regServices, s)
                              ELSE [regServices EXCEPT ![s] = services]
            /\ notifyWatchers(s, services)
            /\ last' = [NoCall EXCEPT !.op = "Unregister", !.svc = s,
                                      !.before = Len(regServices[s])]
    /\ UNCHANGED <<lbVars, rrWindow, gwServices, now, hcEnabled, up, gwProbes, regProbes,
                   req, done, unregd, phase, unweighted, watchers, nchan, regClosed,
                   gwCancelled, gwStopped, regStopped, concVars, extVars, rateVars>>

\* FileServiceRegistry.Watch(ctx, serviceName): the channel, the snapshot
\* sent when the service has a bucket, the goroutine waiting on ctx.Done
Watch(s) ==
    /\ ~panicked
    /\ nchan < MaxWatch
    /\ nchan' = nchan + 1
    /\ watchers' = Store(watchers, s, Append(WatchersOf(s), nchan + 1))
    /\ chans' = [chans EXCEPT ![nchan + 1] =
                   IF s \in DOMAIN regServices
                   THEN [NoChan EXCEPT !.svc = s, !.queued = 1, !.newest = regServices[s]]
                   ELSE [NoChan EXCEPT !.svc = s]]
    /\ last' = [NoCall EXCEPT !.op = "Watch", !.svc = s, !.res = nchan + 1]
    /\ UNCHANGED <<lbVars, rrWindow, gwServices, regServices, now, hcEnabled, up,
                   gwProbes, regProbes, req, done, unregd, phase, unweighted, regClosed,
                   gwCancelled, gwStopped, regStopped, panicked, concVars, extVars, rateVars>>

\* the context given to Watch is cancelled
CancelWatch(c) ==
    /\ ~panicked
    /\ c <= nchan
    /\ chans[c].ctx = "live"
    /\ chans' = [chans EXCEPT ![c].ctx = "done"]
    /\ UNCHANGED <<lbVars, last, rrWindow, gwServices, regServices, now, hcEnabled, up,
                   gwProbes, regProbes, req, done, unregd, phase, unweighted, watchers,
                   nchan, regClosed, gwCancelled, gwStopped, regStopped, panicked,
                   concVars, extVars, rateVars>>

\* a removal that leaves the list as it is
WithoutWatcher_Keeps(ws, c) == ws

\* removeWatcher's search: the list without the channel
WithoutWatcher(ws, c) == SelectSeq(ws, LAMBDA x : x # c)

\* the goroutine of Watch after ctx.Done: FileServiceRegistry.removeWatcher
removeWatcher(c) ==
    /\ ~panicked
    /\ c <= nchan
    /\ chans[c].ctx = "done"
    /\ chans[c].stage = "waiting"
    /\ LET s == chans[c].svc
           ws == WithoutWatcher(WatchersOf(s), c)
       IN  watchers' = IF ws = <<>> THEN Delete(watchers, s)
                       ELSE [watchers EXCEPT ![s] = ws]
    /\ chans' = [chans EXCEPT ![c].stage = "removed"]
    /\ UNCHANGED <<lbVars, last, rrWindow, gwServices, regServices, now, hcEnabled, up,
                   gwProbes, regProbes, req, done, unregd, phase, unweighted, nchan,
                   regClosed, gwCancelled, gwStopped, regStopped, panicked, concVars, extVars, rateVars>>

\* the goroutine of Watch: close(ch); closing a closed channel panics
WatcherClose(c) ==
    /\ ~panicked
    /\ c <= nchan
    /\ chans[c].stage = "removed"
    /\ chans' = [chans EXCEPT ![c].stage = "closed", ![c].closed = TRUE]
    /\ panicked' = chans[c].closed
    /\ UNCHANGED <<lbVars, last, rrWindow, gwServices, regServices, now, hcEnabled, up,
                   gwProbes, regProbes, req, done, unregd, phase, unweighted, watchers,
                   nchan, regClosed, gwCancelled, gwStopped, regStopped, concVars, extVars, rateVars>>

\* the subscriber takes the oldest snapshot from its channel
Receive(c) ==
    /\ ~panicked
    /\ c <= nchan
    /\ chans[c].queued > 0
    /\ chans' = [chans EXCEPT ![c].queued = @ - 1]
    /\ UNCHANGED <<lbVars, last, rrWindow, gwServices, regServices, now, hcEnabled, up,
                   gwProbes, regProbes, req, done, unregd, phase, unweighted, watchers,
                   nchan, regClosed, gwCancelled, gwStopped, regStopped, panicked,
                   concVars, extVars, rateVars>>

\* FileServiceRegistry.Close()
Close ==
    /\ ~panicked
    /\ regClosed' = TRUE
    /\ LET listed == UNION {Range(watchers[s]) : s \in DOMAIN watchers} IN
         /\ chans' = [c \in Chan |->
                        IF c \in listed THEN [chans[c] EXCEPT !.closed = TRUE]
                        ELSE chans[c]]
         /\ panicked' = \E c \in listed : chans[c].closed
    /\ watchers' = <<>>
    /\ last' = [NoCall EXCEPT !.op = "Close"]
    /\ UNCHANGED <<lbVars, rrWindow, gwServices, regServices, now, hcEnabled, up,
                   gwProbes, regProbes, req, done, unregd, phase, unweighted, nchan,
                   gwCancelled, gwStopped, regStopped, concVars, extVars, rateVars>>

\* the registry's health-check goroutine takes the ctx.Done case and returns
RegistryLoopExit ==
    /\ regClosed
    /\ ~regStopped
    /\ regStopped' = TRUE
    /\ UNCHANGED <<lbVars, last, rrWindow, gwServices, regServices, now, hcEnabled, up,
                   gwProbes, regProbes, req, done, unregd, phase, unweighted, watchers,
                   chans, nchan, regClosed, gwCancelled, gwStopped, panicked, concVars, extVars, rateVars>>

\* NewFileServiceRegistry
InitRegistry ==
    /\ inst = [p \in Ptr |-> Blank]
    /\ nalloc = 0
    /\ lbServices = <<>>
    /\ counters = [s \in Services |-> 0]
    /\ strategy = RoundRobin
    /\ last = NoCall
    /\ rrWindow = <<>>
    /\ NoGateway
    /\ NoCallers

NextRegistry ==
    \/ \E p \in Ptr, n \in 1..MaxIDs, h \in BOOLEAN, urlOk \in BOOLEAN :
         Register(p, n, h, urlOk)
    \/ \E n \in 1..MaxIDs : Unregister(InstanceID(ProxiedService, n))

SpecRegistry == InitRegistry /\ [][NextRegistry]_vars

\* ------------------------------------------------------------------ SpecWatch
\* subscribers of one service of the registry that leave their snapshots
\* queued, while the service's instance is registered, re-announced,
\* unregistered and probed

\* Register by the owner of the service's one instance: the object it
\* created at its first call, with the URL it has now
Announce(urlOk) == Register(1, 1, TRUE, urlOk)

NextWatch ==
    \/ \E urlOk \in BOOLEAN : Announce(urlOk)
    \/ Unregister(InstanceID(ProxiedService, 1))
    \/ \E p \in Ptr : BackendFlip(p)
    \/ RegistryTick
    \/ \E p \in Ptr : RegistryProbe(p)
    \/ Watch(ProxiedService)

SpecWatch == InitRegistry /\ [][NextWatch]_vars

\* ------------------------------------------------------------------ SpecCancel
\* subscriptions whose contexts are cancelled while the service's instance is
\* announced again and again

NextCancel ==
    \/ \E urlOk \in BOOLEAN : Announce(urlOk)
    \/ Watch(ProxiedService)
    \/ \E c \in Chan : CancelWatch(c)
    \/ \E c \in Chan : removeWatcher(c)
    \/ \E c \in Chan : WatcherClose(c)

\* the goroutine Watch starts is scheduled
FairCancel ==
    \A c \in Chan : WF_vars(removeWatcher(c)) /\ WF_vars(WatcherClose(c))

SpecCancel == InitRegistry /\ [][NextCancel]_vars /\ FairCancel

\* ------------------------------------------------------------------ SpecClose
\* subscriptions around FileServiceRegistry.Close: contexts are cancelled
\* before and after it, the service's instance is announced

NextClose ==
    \/ \E urlOk \in BOOLEAN : Announce(urlOk)
    \/ Watch(ProxiedService)
    \/ \E c \in Chan : CancelWatch(c)
    \/ \E c \in Chan : removeWatcher(c)
    \/ \E c \in Chan : WatcherClose(c)
    \/ Close
    \/ RegistryLoopExit

SpecClose == InitRegistry /\ [][NextClose]_vars

\* ------------------------------------------------------------------ SpecAlias
\* the registry's slice for the proxied service as the runtime holds it: a
\* pointer into a backing array and a length. Register and Unregister write
\* the cells of the array; the slices sent to a subscriber point into the
\* same arrays.

\* cap of a slice into the array
Cap(a) == IF a = Nil THEN 0 ELSE Len(backing[a])

\* the elements of a slice: the first len cells of its array
Elements(arrays, sl) ==
    IF sl.arr = Nil THEN <<>> ELSE SubSeq(arrays[sl.arr], 1, sl.len)

\* the cap append gives the array it allocates for a slice that is full
GrownCap(cap) == IF cap = 0 THEN 1 ELSE 2 * cap

\* fsr.services[serviceName]
RegSlice == [arr |-> regArr, len |-> Len(RegBucket(ProxiedService)), seen |-> <<>>]

\* ch <- services, unless the channel's buffer is full: the slice goes to the
\* subscriber as it is
SendSlice(sl) ==
    inbox' = IF subscribed /\ Len(inbox) < WatchBuffer
             THEN Append(inbox, sl)
             ELSE inbox

\* the cells of an array after append(services[:i-1], services[i:]...) on
\* its slice of length len: the cells behind i move down by one
ShiftedDown(cells, i, len) ==
    [j \in 1..Len(cells) |-> IF j >= i /\ j < len THEN cells[j + 1] ELSE cells[j]]

\* FileServiceRegistry.Register(ctx, service) with a new object whose ID
\* ends in n
RegisterSlice(n) ==
    /\ nalloc < MaxInst
    /\ LET p == nalloc + 1
           id == InstanceID(ProxiedService, n)
           cur == RegBucket(ProxiedService)
           i == FirstWithID(cur, id, 1)
           service == NewInstance(id, ProxiedService, TRUE, DefaultWeight)
       IN  /\ nalloc' = p
           /\ inst' = [inst EXCEPT ![p] =
                         IF i # 0 THEN service
                         ELSE [service EXCEPT !.registerTime = now, !.lastCheck = now]]
           /\ IF i # 0
              THEN /\ backing' = [backing EXCEPT ![regArr][i] = p]
                   /\ UNCHANGED <<regArr, narr>>
                   /\ regServices' = [regServices EXCEPT ![ProxiedService][i] = p]
              ELSE IF Len(cur) < Cap(regArr)
              THEN /\ backing' = [backing EXCEPT ![regArr][Len(cur) + 1] = p]
                   /\ UNCHANGED <<regArr, narr>>
                   /\ regServices' = Store(regServices, ProxiedService, Append(cur, p))
              ELSE /\ backing' = [backing EXCEPT ![narr + 1] =
                                    [j \in 1..GrownCap(Cap(regArr)) |->
                                       IF j <= Len(cur) THEN cur[j]
                                       ELSE IF j = Len(cur) + 1 THEN p ELSE Nil]]
                   /\ regArr' = narr + 1
                   /\ narr' = narr + 1
                   /\ regServices' = Store(regServices, ProxiedService, Append(cur, p))
           /\ SendSlice([RegSlice EXCEPT !.arr = regArr',
                                         !.len = Len(regServices'[ProxiedService])])
    /\ UNCHANGED <<snapshot, subscribed, cfgVars, probeVars>>
    /\ UNCHANGED <<lbServices, counters, strategy, last, rrWindow, concVars, gwServices,
                   now, hcEnabled, up, gwProbes, regProbes, req, done, unregd, phase,
                   unweighted, watchVars, rateVars>>

\* FileServiceRegistry.Unregister(ctx, serviceID) of an instance the service
\* has
UnregisterSlice(n) ==
    /\ LET cur == RegBucket(ProxiedService)
           i == FirstWithID(cur, InstanceID(ProxiedService, n), 1)
       IN  /\ i # 0
           /\ backing' = [backing EXCEPT ![regArr] = ShiftedDown(@, i, Len(cur))]
           /\ IF Len(cur) = 1
              THEN /\ regServices' = Delete(regServices, ProxiedService)
                   /\ regArr' = Nil
                   /\ SendSlice(NoSlice)
              ELSE /\ regServices' = [regServices EXCEPT ![ProxiedService] = RemoveAt(cur, i)]
                   /\ regArr' = regArr
                   /\ SendSlice([RegSlice EXCEPT !.len = Len(cur) - 1])
    /\ UNCHANGED <<narr, snapshot, subscribed, cfgVars, probeVars>>
    /\ UNCHANGED <<lbVars, last, rrWindow, concVars, gwServices, now, hcEnabled, up,
                   gwProbes, regProbes, req, done, unregd, phase, unweighted,
                   watchVars, rateVars>>

\* FileServiceRegistry.Watch(ctx, serviceName): the current slice is sent
\* when the service has one
WatchSlice ==
    /\ ~subscribed
    /\ subscribed' = TRUE
    /\ inbox' = IF ProxiedService \in DOMAIN regServices
                THEN <<RegSlice>>
                ELSE <<>>
    /\ UNCHANGED <<backing, narr, regArr, snapshot, cfgVars, probeVars>>
    /\ UNCHANGED <<lbVars, last, rrWindow, concVars, gwServices, regServices, now,
                   hcEnabled, up, gwProbes, regProbes, req, done, unregd, phase,
                   unweighted, watchVars, rateVars>>

\* the subscriber receives the oldest slice on its channel, reads its
\* elements and keeps it
ReceiveSlice ==
    /\ inbox # <<>>
    /\ snapshot' = [Head(inbox) EXCEPT !.seen = Elements(backing, Head(inbox))]
    /\ inbox' = Tail(inbox)
    /\ UNCHANGED <<backing, narr, regArr, subscribed, cfgVars, probeVars>>
    /\ UNCHANGED <<lbVars, last, rrWindow, concVars, gwServices, regServices, now,
                   hcEnabled, up, gwProbes, regProbes, req, done, unregd, phase,
                   unweighted, watchVars, rateVars>>

NextAlias ==
    \/ \E n \in 1..MaxIDs : RegisterSlice(n)
    \/ \E n \in 1..MaxIDs : UnregisterSlice(n)
    \/ WatchSlice
    \/ ReceiveSlice

SpecAlias == InitRegistry /\ [][NextAlias]_vars

\* ------------------------------------------------------------------ SpecShutdown
\* the Gateway with its two health-check loops and subscribers of its
\* registry, up to and after Gateway.Shutdown

\* Gateway.Shutdown: g.cancel()
Shutdown ==
    /\ gwCancelled' = TRUE
    /\ UNCHANGED <<concVars, extVars, rateVars, lbVars, last, rrWindow, gwServices, regServices, now, hcEnabled,
                   up, gwProbes, regProbes, req, done, unregd, phase, unweighted,
                   watchers, chans, nchan, regClosed, gwStopped, regStopped, panicked>>

\* the Gateway's health-check goroutine takes the g.ctx.Done case of its
\* select and returns
GatewayLoopExit ==
    /\ hcEnabled
    /\ gwCancelled
    /\ ~gwStopped
    /\ gwStopped' = TRUE
    /\ UNCHANGED <<concVars, extVars, rateVars, lbVars, last, rrWindow, gwServices, regServices, now, hcEnabled,
                   up, gwProbes, regProbes, req, done, unregd, phase, unweighted,
                   watchers, chans, nchan, regClosed, gwCancelled, regStopped, panicked>>

InitShutdown == NewGateway(TRUE)

NextShutdown ==
    \/ \E s \in Services : registerService(s)
    \/ GatewayTick
    \/ \E p \in Ptr : checkServiceHealth(p)
    \/ RegistryTick
    \/ \E p \in Ptr : RegistryProbe(p)
    \/ \E s \in Services : Watch(s)
    \/ Shutdown
    \/ GatewayLoopExit

SpecShutdown == InitShutdown /\ [][NextShutdown]_vars

\* ------------------------------------------------------------------ routes

\* the route groups of setupRoutes under /api/v1 that proxy to the service
Routes == {"auth", "students", "teachers", "grades"}

\* the routes of the group that uses AuthMiddleware
Protected == {"students", "teachers", "grades"}

\* ------------------------------------------------------------------ SpecRate
\* the Gateway's router: every request passes RateLimitMiddleware before
\* the proxy handler

\* config.Gateway.RateLimit
rateLimit == MaxRate

\* the address c.ClientIP() gives
ClientIP == "10.0.0.1"

\* Gateway.isRateLimited
isRateLimited(clientIP) == FALSE

\* Gateway.RateLimitMiddleware on a request standing at pc: 429 and
\* c.Abort() when isRateLimited, c.Next() otherwise. At most one request
\* beyond the ceiling arrives in a second.
RateLimitMiddlewareAt(r, pc) ==
    /\ req[r].pc = pc
    /\ arrivals <= rateLimit
    /\ arrivals' = arrivals + 1
    /\ IF isRateLimited(ClientIP)
       THEN /\ done' = [NoneDone EXCEPT !.status = "429"]
            /\ req' = [req EXCEPT ![r] = NoRequest]
            /\ admitted' = admitted
       ELSE /\ req' = [req EXCEPT ![r].pc = "admitted",
                                  ![r].trail = Append(@, "ratelimit")]
            /\ admitted' = admitted + 1
            /\ done' = done
    /\ UNCHANGED <<concVars, extVars, watchVars, unweighted, lbVars, last, rrWindow, gwServices,
                   regServices, now, hcEnabled, up, gwProbes, regProbes, unregd, phase>>

\* RateLimitMiddleware on a request that has just arrived
RateLimitMiddleware(r) == RateLimitMiddlewareAt(r, "idle")

\* the proxy handler of a route outside the protected group, on a request
\* RateLimitMiddleware has passed on
ProxyAdmitted(r) ==
    /\ req[r].route \notin Protected
    /\ ProxySelectAt(r, "admitted")

InitRate == NewGateway(FALSE)

NextRate ==
    \/ \E r \in Req : RateLimitMiddleware(r)
    \/ \E r \in Req : ProxyAdmitted(r)
    \/ \E r \in Req : ProxyParse(r)
    \/ \E r \in Req, event \in ForwardEvents : ProxyForward(r, event)
    \/ ClockTick

SpecRate == InitRate /\ [][NextRate]_vars

\* ------------------------------------------------------------------ SpecProxy
\* proxyRequest on concurrent requests while instances are registered

InitProxy == NewGateway(FALSE)

NextProxy ==
    \/ \E s \in Services : registerService(s)
    \/ \E r \in Req : ProxySelect(r)
    \/ \E r \in Req : ProxyParse(r)
    \/ \E r \in Req, event \in ForwardEvents : ProxyForward(r, event)

SpecProxy == InitProxy /\ [][NextProxy]_vars

\* ------------------------------------------------------------------ SpecChain
\* one request at a time through the handlers chain gin builds for the
\* proxying routes: the global middlewares in the order of their Use calls,
\* AuthMiddleware for the protected group, then proxyRequest

\* the global middlewares, in the order setupMiddlewares installs them
GlobalMiddlewares == <<"security", "cors", "logging", "ratelimit">>

\* the stage c.Next() of a global middleware leads to
StageAfter(stage) ==
    LET i == CHOOSE k \in 1..Len(GlobalMiddlewares) : GlobalMiddlewares[k] = stage
    IN  IF i < Len(GlobalMiddlewares) THEN GlobalMiddlewares[i + 1] ELSE "admitted"

Methods == {"GET", "OPTIONS"}

\* Authorization headers: none, another scheme, Bearer with nothing, with
\* the two refused words, with a short token and with a long one
AuthHeaders ==
    {NoAuth,
     [scheme |-> "Basic ", token |-> "dXNlcjpwdw=="],
     [scheme |-> "Bearer ", token |-> ""],
     [scheme |-> "Bearer ", token |-> "invalid"],
     [scheme |-> "Bearer ", token |-> "expired"],
     [scheme |-> "Bearer ", token |-> "short"],
     [scheme |-> "Bearer ", token |-> "eyJhbGciOiJIUzI1NiJ9"]}

\* a check that lets every token through
validateToken_AnyToken(token) == TRUE

\* Gateway.validateToken
validateToken(token) == token \notin {"invalid", "expired"} /\ Len(token) > 10

\* the tests of AuthMiddleware, in their order
AuthVerdict(auth) ==
    IF auth.scheme \o auth.token = "" THEN "missing"
    ELSE IF auth.scheme # "Bearer " THEN "format"
    ELSE IF auth.token = "" THEN "empty"
    ELSE IF ~validateToken(auth.token) THEN "invalid"
    ELSE "ok"

\* a request for a proxying route reaches the router
Arrive(r, method, route, auth) ==
    /\ \A q \in Req : req[q].pc = "idle"
    /\ req' = [req EXCEPT ![r] = [NoRequest EXCEPT !.pc = GlobalMiddlewares[1],
                                                   !.method = method,
                                                   !.route = route,
                                                   !.auth = auth]]
    /\ UNCHANGED <<concVars, extVars, rateVars, watchVars, unweighted, lbVars, last, rrWindow,
                   gwServices, regServices, now, hcEnabled, up, gwProbes, regProbes,
                   done, unregd, phase>>

\* Gateway.SecurityMiddleware: headers, c.Next()
SecurityMiddleware(r) ==
    /\ req[r].pc = "security"
    /\ req' = [req EXCEPT ![r].pc = StageAfter("security"),
                          ![r].trail = Append(@, "security")]
    /\ UNCHANGED <<concVars, extVars, rateVars, watchVars, unweighted, lbVars, last, rrWindow,
                   gwServices, regServices, now, hcEnabled, up, gwProbes, regProbes,
                   done, unregd, phase>>

\* Gateway.CORSMiddleware: headers, 204 and abort for OPTIONS, c.Next()
\* otherwise
CORSMiddleware(r) ==
    /\ req[r].pc = "cors"
    /\ IF req[r].method = "OPTIONS"
       THEN /\ req' = [req EXCEPT ![r] = NoRequest]
            /\ done' = [NoneDone EXCEPT !.status = "204"]
       ELSE /\ req' = [req EXCEPT ![r].pc = StageAfter("cors"),
                                  ![r].trail = Append(@, "cors")]
            /\ done' = done
    /\ UNCHANGED <<concVars, extVars, rateVars, watchVars, unweighted, lbVars, last, rrWindow,
                   gwServices, regServices, now, hcEnabled, up, gwProbes, regProbes,
                   unregd, phase>>

\* Gateway.LoggingMiddleware: gin's logger, which calls c.Next()
LoggingMiddleware(r) ==
    /\ req[r].pc = "logging"
    /\ req' = [req EXCEPT ![r].pc = StageAfter("logging"),
                          ![r].trail = Append(@, "logging")]
    /\ UNCHANGED <<concVars, extVars, rateVars, watchVars, unweighted, lbVars, last, rrWindow,
                   gwServices, regServices, now, hcEnabled, up, gwProbes, regProbes,
                   done, unregd, phase>>

\* RateLimitMiddleware as the last global middleware
ChainRateLimit(r) == RateLimitMiddlewareAt(r, "ratelimit")

\* Gateway.AuthMiddleware on a request for a route of the protected group:
\* 401 and abort unless the header carries a token validateToken accepts
AuthMiddleware(r) ==
    /\ req[r].pc = "admitted"
    /\ req[r].route \in Protected
    /\ IF AuthVerdict(req[r].auth) = "ok"
       THEN /\ req' = [req EXCEPT ![r].pc = "authorized",
                                  ![r].trail = Append(@, "auth")]
            /\ done' = done
       ELSE /\ req' = [req EXCEPT ![r] = NoRequest]
            /\ done' = [NoneDone EXCEPT !.status = "401"]
    /\ UNCHANGED <<concVars, extVars, rateVars, watchVars, unweighted, lbVars, last, rrWindow,
                   gwServices, regServices, now, hcEnabled, up, gwProbes, regProbes,
                   unregd, phase>>

\* the proxy handler of a protected route, on a request AuthMiddleware has
\* passed on
ProxyAuthorized(r) == ProxySelectAt(r, "authorized")

InitChain == NewGateway(FALSE)

NextChain ==
    \/ \E r \in Req, method \in Methods, route \in Routes, auth \in AuthHeaders :
         Arrive(r, method, route, auth)
    \/ \E r \in Req : SecurityMiddleware(r)
    \/ \E r \in Req : CORSMiddleware(r)
    \/ \E r \in Req : LoggingMiddleware(r)
    \/ \E r \in Req : ChainRateLimit(r)
    \/ \E r \in Req : AuthMiddleware(r)
    \/ \E r \in Req : ProxyAdmitted(r)
    \/ \E r \in Req : ProxyAuthorized(r)
    \/ \E r \in Req : ProxyParse(r)
    \/ \E r \in Req, event \in ForwardEvents : ProxyForward(r, event)

SpecChain == InitChain /\ [][NextChain]_vars

\* ------------------------------------------------------------------ ConfigManager

\* the GatewayConfig objects a goroutine can still reach
Roots(config, reader) == {config, reader.ptr} \ {Nil}

\* the slot a new GatewayConfig object gets
NewObj(roots) == CHOOSE o \in Obj \ roots : \A q \in Obj \ roots : o <= q

\* the heap once the objects no reference leads to are gone
Collected(heap, roots) == [o \in Obj |-> IF o \in roots THEN heap[o] ELSE ZeroConfig]

\* what a ConfigManager call returned
CallReturned(op, err, notified) == [op |-> op, err |-> err, notified |-> notified]

\* os.Stat and cm.lastModified agree
Unmodified_Never(lastModified, mtime) == FALSE

Unmodified(lastModified, mtime) == lastModified # ZeroTime /\ mtime = lastModified

\* LoadConfig: nothing on an unmodified file; else read, Unmarshal,
\* validateConfig, setDefaults, then the new object becomes cm.config and
\* notifyWatchers starts one goroutine per watcher
LoadConfig ==
    /\ cmConfig # Nil
    /\ IF Unmodified(cmLastModified, cfgFile.mtime)
       THEN /\ cmReturn' = CallReturned("load", ErrNone, 0)
            /\ UNCHANGED <<cfgHeap, cmConfig, cmLastModified>>
       ELSE IF ~cfgFile.text.yaml
       THEN /\ cmReturn' = CallReturned("load", ErrParse, 0)
            /\ UNCHANGED <<cfgHeap, cmConfig, cmLastModified>>
       ELSE IF ~validateConfig(Unmarshal(cfgFile.text))
       THEN /\ cmReturn' = CallReturned("load", ErrValidation, 0)
            /\ UNCHANGED <<cfgHeap, cmConfig, cmLastModified>>
       ELSE LET new == NewObj(Roots(cmConfig, held)) IN
            /\ cmConfig' = new
            /\ cfgHeap' = Collected([cfgHeap EXCEPT ![new] =
                                       setDefaults(Unmarshal(cfgFile.text))],
                                    Roots(new, held))
            /\ cmLastModified' = cfgFile.mtime
            /\ cmReturn' = CallReturned("load", ErrNone, cmWatchers)
    /\ UNCHANGED <<cfgFile, cmWatchers, held>>
    /\ UNCHANGED <<lbVars, last, rrWindow, concVars, gwServices, regServices, now,
                   hcEnabled, up, gwProbes, regProbes, req, done, unregd, phase,
                   unweighted, watchVars, rateVars, probeVars, aliasVars>>

\* WatchConfig: the ticker fires, LoadConfig runs, its error is logged
WatchConfig == LoadConfig

\* GetConfig: the pointer cm.config, through which the caller reads the fields
GetConfig ==
    /\ cmConfig # Nil
    /\ held' = [ptr |-> cmConfig, seen |-> cfgHeap[cmConfig]]
    /\ cfgHeap' = Collected(cfgHeap, Roots(cmConfig, held'))
    /\ UNCHANGED <<cfgFile, cmConfig, cmLastModified, cmWatchers, cmReturn>>
    /\ UNCHANGED <<lbVars, last, rrWindow, concVars, gwServices, regServices, now,
                   hcEnabled, up, gwProbes, regProbes, req, done, unregd, phase,
                   unweighted, watchVars, rateVars, probeVars, aliasVars>>

\* saveConfig: the file gets yaml.Marshal(cm.config) and a new modification
\* time, or ioutil.WriteFile fails and leaves it
saveConfig(written) ==
    /\ written => cfgFile.mtime < MaxMtime
    /\ cfgFile' = IF written
                  THEN [mtime |-> cfgFile.mtime + 1, text |-> Marshal(cfgHeap'[cmConfig'])]
                  ELSE cfgFile

\* the GatewayConfig objects callers build for UpdateConfig
Candidates ==
    {Unmarshal(t) : t \in {[FullText EXCEPT !.port = Absent("port")],
                           [FullText EXCEPT !.strategy = Absent("strategy")]}}

\* UpdateConfig(config) on an object the caller has built: validateConfig,
\* setDefaults on the caller's object, cm.config = config, saveConfig,
\* notifyWatchers
UpdateConfig(config, written) ==
    /\ cmConfig # Nil
    /\ IF ~validateConfig(config)
       THEN /\ cmReturn' = CallReturned("update", ErrValidation, 0)
            /\ UNCHANGED <<cfgFile, cfgHeap, cmConfig>>
       ELSE LET new == NewObj(Roots(cmConfig, held)) IN
            /\ cmConfig' = new
            /\ cfgHeap' = Collected([cfgHeap EXCEPT ![new] = setDefaults(config)],
                                    Roots(new, held))
            /\ saveConfig(written)
            /\ cmReturn' = IF written THEN CallReturned("update", ErrNone, cmWatchers)
                           ELSE CallReturned("update", ErrSave, 0)
    /\ UNCHANGED <<cmLastModified, cmWatchers, held>>
    /\ UNCHANGED <<lbVars, last, rrWindow, concVars, gwServices, regServices, now,
                   hcEnabled, up, gwProbes, regProbes, req, done, unregd, phase,
                   unweighted, watchVars, rateVars, probeVars, aliasVars>>

\* the ServiceInfo values callers pass to AddService
ServiceInfos == {[URL |-> "http://orders", Weight |-> 0]}

\* the service AddService is called for
AddedService == "orders"

\* AddService: cm.config.Services[serviceName] = service on the active
\* object, saveConfig, notifyWatchers
AddService(serviceName, service, written) ==
    /\ cmConfig # Nil
    /\ cfgHeap' = [cfgHeap EXCEPT ![cmConfig].Services =
                     [nil |-> FALSE, m |-> Store(@.m, serviceName, service)]]
    /\ cmConfig' = cmConfig
    /\ saveConfig(written)
    /\ cmReturn' = IF written THEN CallReturned("add", ErrNone, cmWatchers)
                   ELSE CallReturned("add", ErrSave, 0)
    /\ UNCHANGED <<cmLastModified, cmWatchers, held>>
    /\ UNCHANGED <<lbVars, last, rrWindow, concVars, gwServices, regServices, now,
                   hcEnabled, up, gwProbes, regProbes, req, done, unregd, phase,
                   unweighted, watchVars, rateVars, probeVars, aliasVars>>

\* RemoveService: delete(cm.config.Services, serviceName) on the active
\* object, saveConfig, notifyWatchers
RemoveService(serviceName, written) ==
    /\ cmConfig # Nil
    /\ IF cfgHeap[cmConfig].Services.nil
       THEN /\ cmReturn' = CallReturned("remove", ErrNoServices, 0)
            /\ UNCHANGED <<cfgFile, cfgHeap, cmConfig>>
       ELSE /\ cfgHeap' = [cfgHeap EXCEPT ![cmConfig].Services.m = Delete(@, serviceName)]
            /\ cmConfig' = cmConfig
            /\ saveConfig(written)
            /\ cmReturn' = IF written THEN CallReturned("remove", ErrNone, cmWatchers)
                           ELSE CallReturned("remove", ErrSave, 0)
    /\ UNCHANGED <<cmLastModified, cmWatchers, held>>
    /\ UNCHANGED <<lbVars, last, rrWindow, concVars, gwServices, regServices, now,
                   hcEnabled, up, gwProbes, regProbes, req, done, unregd, phase,
                   unweighted, watchVars, rateVars, probeVars, aliasVars>>

\* AddWatcher
AddWatcher ==
    /\ cmConfig # Nil
    /\ cmWatchers < MaxCfgWatch
    /\ cmWatchers' = cmWatchers + 1
    /\ UNCHANGED <<cfgFile, cfgHeap, cmConfig, cmLastModified, cmReturn, held>>
    /\ UNCHANGED <<lbVars, last, rrWindow, concVars, gwServices, regServices, now,
                   hcEnabled, up, gwProbes, regProbes, req, done, unregd, phase,
                   unweighted, watchVars, rateVars, probeVars, aliasVars>>

\* an operator rewrites the configuration file
EditFile(text) ==
    /\ cfgFile.mtime < MaxMtime
    /\ cfgFile' = [mtime |-> cfgFile.mtime + 1, text |-> text]
    /\ UNCHANGED <<cfgHeap, cmConfig, cmLastModified, cmWatchers, cmReturn, held>>
    /\ UNCHANGED <<lbVars, last, rrWindow, concVars, gwServices, regServices, now,
                   hcEnabled, up, gwProbes, regProbes, req, done, unregd, phase,
                   unweighted, watchVars, rateVars, probeVars, aliasVars>>

\* ------------------------------------------------------------------ SpecConfig
\* the ConfigManager under UpdateConfig, AddService, RemoveService and the
\* reloads of the file they write, with a reader of GetConfig

\* the file's first modification time
FirstMtime == ZeroTime + 1

\* NewConfigManager: LoadConfig has succeeded on a file among texts
NewConfigManager(texts) ==
    /\ inst = [p \in Ptr |-> Blank]
    /\ nalloc = 0
    /\ lbServices = <<>>
    /\ counters = [s \in Services |-> 0]
    /\ strategy = RoundRobin
    /\ last = NoCall
    /\ rrWindow = <<>>
    /\ NoServing
    /\ NoCallers
    /\ \E text \in texts :
         /\ text.yaml
         /\ validateConfig(Unmarshal(text))
         /\ cfgFile = [mtime |-> FirstMtime, text |-> text]
         /\ cfgHeap = [o \in Obj |-> IF o = 1 THEN setDefaults(Unmarshal(text))
                                     ELSE ZeroConfig]
    /\ cmConfig = 1
    /\ cmLastModified = FirstMtime
    /\ cmWatchers = 0
    /\ cmReturn = CallReturned("load", ErrNone, 0)
    /\ held = NoHeld
    /\ NoFlights
    /\ NoSlices

InitConfig == NewConfigManager({FullText})

NextConfig ==
    \/ WatchConfig
    \/ GetConfig
    \/ \E config \in Candidates, written \in BOOLEAN : UpdateConfig(config, written)
    \/ \E service \in ServiceInfos, written \in BOOLEAN :
         AddService(AddedService, service, written)
    \/ \E n \in Services, written \in BOOLEAN : RemoveService(n, written)
    \/ AddWatcher

SpecConfig == InitConfig /\ [][NextConfig]_vars

\* ------------------------------------------------------------------ SpecLoad
\* the ConfigManager reloading a file that an operator rewrites

InitLoad == NewConfigManager(ConfigTexts)

NextLoad ==
    \/ WatchConfig
    \/ AddWatcher
    \/ \E text \in ConfigTexts : EditFile(text)

SpecLoad == InitLoad /\ [][NextLoad]_vars

\* ------------------------------------------------------------------ SpecConc
\* goroutines in GetInstance and ReleaseConnection on one service whose
\* instances are all healthy, under round-robin. GetInstance holds
\* lb.mu.RLock, which any number of goroutines hold together; its reads and
\* writes of lb.counters[serviceName] and of Connections are separate steps.
\* ReleaseConnection holds lb.mu.Lock, so it runs while no goroutine is
\* inside GetInstance and is one step.

InGetInstance(g) == proc[g].pc \in {"filtered", "counted", "picked", "loaded"}

ConcHealthy == HealthyInstances(Bucket(ProxiedService))

\* GetInstance: RLock, the lookup of the bucket and the filter
ConcFilter(g) ==
    /\ proc[g].pc = "idle"
    /\ started < MaxCalls
    /\ GetInstanceError(ProxiedService \in DOMAIN lbServices,
                        Len(Bucket(ProxiedService)), Len(ConcHealthy)) = ErrNone
    /\ started' = started + 1
    /\ proc' = [proc EXCEPT ![g] = [IdleProc EXCEPT !.pc = "filtered",
                                                  !.list = ConcHealthy]]
    /\ UNCHANGED <<last, rrWindow, gwVars, lbVars, acct, cursor0>>

\* roundRobin: count := lb.counters[serviceName]
ConcReadCursor(g) ==
    /\ proc[g].pc = "filtered"
    /\ proc' = [proc EXCEPT ![g] = [@ EXCEPT !.pc = "counted",
                                           !.count = counters[ProxiedService]]]
    /\ UNCHANGED <<last, rrWindow, gwVars, lbVars, acct, cursor0, started>>

\* roundRobin: the pick and lb.counters[serviceName] = (count + 1) % len
ConcWriteCursor(g) ==
    /\ proc[g].pc = "counted"
    /\ counters' = [counters EXCEPT ![ProxiedService] =
                      roundRobinCursor(proc[g].count, Len(proc[g].list))]
    /\ proc' = [proc EXCEPT ![g] =
                  [@ EXCEPT !.pc = "picked",
                            !.sel = proc[g].list[roundRobinIndex(proc[g].count,
                                                                 Len(proc[g].list)) + 1]]]
    /\ UNCHANGED <<last, rrWindow, gwVars, inst, nalloc, lbServices, strategy, acct, cursor0, started>>

\* selectedInstance.Connections++: the read
ConcReadConn(g) ==
    /\ proc[g].pc = "picked"
    /\ proc' = [proc EXCEPT ![g] = [@ EXCEPT !.pc = "loaded",
                                           !.conn = inst[proc[g].sel].conn]]
    /\ UNCHANGED <<last, rrWindow, gwVars, lbVars, acct, cursor0, started>>

\* selectedInstance.Connections++: the write; RUnlock and return
ConcWriteConn(g) ==
    /\ proc[g].pc = "loaded"
    /\ inst' = [inst EXCEPT ![proc[g].sel].conn = proc[g].conn + 1]
    /\ acct' = [acct EXCEPT ![proc[g].sel].selected = @ + 1]
    /\ proc' = [proc EXCEPT ![g] = [@ EXCEPT !.pc = "holding"]]
    /\ UNCHANGED <<last, rrWindow, gwVars, nalloc, lbServices, counters, strategy, cursor0, started>>

\* ReleaseConnection of the instance GetInstance returned
ConcRelease(g) ==
    /\ proc[g].pc = "holding"
    /\ \A h \in Proc : ~InGetInstance(h)
    /\ inst' = [inst EXCEPT ![proc[g].sel].conn = ReleasedConnections(@)]
    /\ acct' = [acct EXCEPT ![proc[g].sel].released = @ + 1]
    /\ proc' = [proc EXCEPT ![g] = IdleProc]
    /\ UNCHANGED <<last, rrWindow, gwVars, nalloc, lbServices, counters, strategy, cursor0, started>>

\* a LoadBalancer with k healthy instances registered for the service and
\* the cursor where earlier selections left it
InitConc ==
    \E k \in 2..MaxInst : \E c \in 0..(k - 1) :
       /\ nalloc = k
       /\ inst = [p \in Ptr |->
                    IF p <= k
                    THEN NewInstance(InstanceID(ProxiedService, p), ProxiedService,
                                     TRUE, DefaultWeight)
                    ELSE Blank]
       /\ lbServices = (ProxiedService :> [i \in 1..k |-> i])
       /\ counters = [s \in Services |-> IF s = ProxiedService THEN c ELSE 0]
       /\ cursor0 = c
       /\ strategy = RoundRobin
       /\ last = NoCall
       /\ rrWindow = <<>>
       /\ NoGateway
       /\ proc = [g \in Proc |-> IdleProc]
       /\ acct = [p \in Ptr |-> NoAccount]
       /\ started = 0

NextConc ==
    \/ \E g \in Proc : ConcFilter(g)
    \/ \E g \in Proc : ConcReadCursor(g)
    \/ \E g \in Proc : ConcWriteCursor(g)
    \/ \E g \in Proc : ConcReadConn(g)
    \/ \E g \in Proc : ConcWriteConn(g)
    \/ \E g \in Proc : ConcRelease(g)

SpecConc == InitConc /\ [][NextConc]_vars

\* ------------------------------------------------------------------ SpecLock
\* goroutines in GetInstance, holding lb.mu.RLock, while the two
\* health-check loops probe the instances

\* POST /gateway/services/:name/register; LoadBalancer.RegisterService in it
\* takes lb.mu.Lock
LockedRegisterService(s) ==
    /\ \A g \in Proc : ~InGetInstance(g)
    /\ registerService(s)

\* NewGateway with health checking on, round-robin and the proxied service
\* alone in the configuration
InitLock ==
    /\ NewGateway(TRUE)
    /\ strategy = RoundRobin
    /\ DOMAIN lbServices = {ProxiedService}

NextLock ==
    \/ LockedRegisterService(ProxiedService)
    \/ \E p \in Ptr : BackendFlip(p)
    \/ GatewayTick
    \/ \E p \in Ptr : checkServiceHealth(p)
    \/ RegistryTick
    \/ \E p \in Ptr : RegistryProbe(p)
    \/ \E g \in Proc : ConcFilter(g)
    \/ \E g \in Proc : ConcReadCursor(g)
    \/ \E g \in Proc : ConcWriteCursor(g)
    \/ \E g \in Proc : ConcReadConn(g)
    \/ \E g \in Proc : ConcWriteConn(g)

SpecLock == InitLock /\ [][NextLock]_vars

\* ------------------------------------------------------------------ SpecProbes
\* the two health-check loops at the granularity of a probe goroutine: a
\* tick starts it, its request is answered, it writes the instance's fields

Loops == {"gateway", "registry"}

\* a probe goroutine that has not got its answer; at becomes the position
\* of its answer among all answers, ok the answer
NewFlight(id, loop, p) ==
    [id |-> id, loop |-> loop, p |-> p, at |-> 0, ok |-> FALSE]

\* the instances a loop's performHealthChecks ranges over
ProbedBy(loop) == IF loop = "gateway" THEN GatewayProbed ELSE RegistryProbed

\* a tick of a loop: performHealthChecks starts one goroutine per instance
ProbeStart(loop) ==
    /\ IF loop = "gateway" THEN hcEnabled /\ ~gwStopped ELSE ~regStopped
    /\ ProbedBy(loop) # {}
    /\ nprobe + Cardinality(ProbedBy(loop)) <= MaxProbes
    /\ flights' = flights \cup
                    {NewFlight(nprobe + Cardinality({q \in ProbedBy(loop) : q <= p}),
                               loop, p) : p \in ProbedBy(loop)}
    /\ nprobe' = nprobe + Cardinality(ProbedBy(loop))
    /\ UNCHANGED <<nobs, asOf, cfgVars, aliasVars>>
    /\ UNCHANGED <<lbVars, last, rrWindow, concVars, gwServices, regServices, now,
                   hcEnabled, up, gwProbes, regProbes, req, done, unregd, phase,
                   unweighted, watchVars, rateVars>>

\* the probe goroutine started as the id-th is still running
InFlight(id) == \E f \in flights : f.id = id

FlightOf(id) == CHOOSE f \in flights : f.id = id

\* client.Get(healthURL) in checkServiceHealth, fsr.HealthCheck in the
\* registry's goroutine: the answer arrives
ProbeAnswer(id) ==
    /\ InFlight(id)
    /\ LET f == FlightOf(id) IN
         /\ f.at = 0
         /\ nobs' = nobs + 1
         /\ flights' = (flights \ {f}) \cup {[f EXCEPT !.at = nobs + 1,
                                                       !.ok = ProbeSucceeds(f.p)]}
    /\ UNCHANGED <<nprobe, asOf, cfgVars, aliasVars>>
    /\ UNCHANGED <<lbVars, last, rrWindow, concVars, gwServices, regServices, now,
                   hcEnabled, up, gwProbes, regProbes, req, done, unregd, phase,
                   unweighted, watchVars, rateVars>>

\* the goroutine f writes what it was answered: Healthy and LastCheck in
\* checkServiceHealth; LastCheck, Healthy, FailureCount and the notification
\* of a change in the registry's goroutine
ProbeWrites(f) ==
    /\ f.at > 0
    /\ flights' = flights \ {f}
    /\ asOf' = [asOf EXCEPT ![f.p] = f.at]
    /\ IF f.loop = "gateway"
       THEN /\ inst' = [inst EXCEPT ![f.p].healthy = f.ok,
                                    ![f.p].lastCheck = IF inst[f.p].urlOk THEN now ELSE @]
            /\ UNCHANGED <<chans, panicked>>
       ELSE /\ inst' = [inst EXCEPT ![f.p].healthy = f.ok,
                                    ![f.p].lastCheck = now,
                                    ![f.p].failureCount = IF f.ok THEN 0 ELSE @ + 1]
            /\ IF inst[f.p].healthy # f.ok
               THEN notifyWatchers(inst[f.p].svc,
                                   IF inst[f.p].svc \in DOMAIN regServices
                                   THEN regServices[inst[f.p].svc] ELSE <<>>)
               ELSE UNCHANGED <<chans, panicked>>
    /\ UNCHANGED <<nprobe, nobs, cfgVars, aliasVars>>
    /\ UNCHANGED <<nalloc, lbServices, counters, strategy, last, rrWindow, concVars,
                   gwServices, regServices, now, hcEnabled, up, gwProbes, regProbes,
                   req, done, unregd, phase, unweighted, watchers, nchan, regClosed,
                   gwCancelled, gwStopped, regStopped, rateVars>>

\* a probe goroutine that has its answer runs to its end
ProbeFold(id) ==
    /\ InFlight(id)
    /\ ProbeWrites(FlightOf(id))

InitProbes == InitLock

NextProbes ==
    \/ registerService(ProxiedService)
    \/ \E p \in Ptr : BackendFlip(p)
    \/ \E loop \in Loops : ProbeStart(loop)
    \/ \E id \in 1..MaxProbes : ProbeAnswer(id)
    \/ \E id \in 1..MaxProbes : ProbeFold(id)

SpecProbes == InitProbes /\ [][NextProbes]_vars

\* ------------------------------------------------------------------ SpecStrategy
\* the weighted and least-connections strategies applied to buckets of every
\* shape: k instances of the service, each healthy or not, with weights
\* 0..MaxWeight under weighted; selections and releases follow

InitStrategy ==
    \E k \in 1..MaxInst :
    \E st \in {Weighted, LeastConn} :
    \E hs \in [1..k -> BOOLEAN] :
    \E ws \in [1..k -> 0..MaxWeight] :
       /\ st = LeastConn => \A i \in 1..k : ws[i] = DefaultWeight
       /\ nalloc = k
       /\ inst = [p \in Ptr |->
                    IF p <= k
                    THEN [NewInstance(InstanceID(ProxiedService, p), ProxiedService,
                                      TRUE, ws[p]) EXCEPT !.healthy = hs[p]]
                    ELSE Blank]
       /\ lbServices = (ProxiedService :> [i \in 1..k |-> i])
       /\ counters = [s \in Services |-> 0]
       /\ strategy = st
       /\ last = NoCall
       /\ rrWindow = <<>>
       /\ NoGateway
       /\ NoCallers

\* LoadBalancer.GetInstance(serviceName) while fewer than MaxLoad selections
\* are held
StrategySelect ==
    /\ GetInstanceCall(ProxiedService, MaxLoad)
    /\ UNCHANGED <<rrWindow, gwVars, concVars>>

NextStrategy ==
    \/ StrategySelect
    \/ \E p \in Ptr : ReleaseConnection(p)

SpecStrategy == InitStrategy /\ [][NextStrategy]_vars

\* ------------------------------------------------------------------ claims on SpecRegistry

\* position of the first instance with the id in a bucket of the registry,
\* 0 when none
HeldAt(bucket, id) ==
    IF \E k \in 1..Len(bucket) : inst[bucket[k]].id = id
    THEN CHOOSE k \in 1..Len(bucket) :
           /\ inst[bucket[k]].id = id
           /\ \A j \in 1..(k - 1) : inst[bucket[j]].id # id
    ELSE 0

\* C14: registry Register is idempotent by id: registering an instance whose
\* id is already in the bucket of its service replaces that record in place
\* and leaves the size of the bucket and every other record unchanged;
\* registering a new id grows the bucket by exactly one record, which has
\* healthy = true and registerTime and lastCheck stamped with the time of
\* the call.
C14_RegisterIdempotent ==
    [][last'.op = "Register" =>
         LET p == last'.res
             old == RegBucket(last'.svc)
             new == regServices'[last'.svc]
             i == HeldAt(old, inst'[p].id)
         IN  /\ \A k \in 1..Len(old) : k # i =>
                  new[k] = old[k] /\ inst'[old[k]] = inst[old[k]]
             /\ IF i # 0
                THEN Len(new) = Len(old) /\ new[i] = p
                ELSE /\ new = Append(old, p)
                     /\ inst'[p].healthy
                     /\ inst'[p].registerTime = now
                     /\ inst'[p].lastCheck = now]_vars

\* a new object has just replaced, in place, the first record of a bucket of
\* two, and it carries no stamp of the registry
C14_Witness ==
    /\ last.op = "Register"
    /\ last.before = 2
    /\ Len(RegBucket(last.svc)) = 2
    /\ RegBucket(last.svc)[1] = last.res
    /\ inst[last.res].registerTime = ZeroTime
    /\ inst[RegBucket(last.svc)[2]].registerTime = now

\* ------------------------------------------------------------------ claims on SpecWatch

\* the channels listed for a service
Listed(s) == Range(WatchersOf(s))

\* what a subscriber of a service is told about: the ids and the healthy
\* flags of its instances
View(s) ==
    [k \in 1..Len(RegBucket(s)) |->
       <<inst[RegBucket(s)[k]].id, inst[RegBucket(s)[k]].healthy>>]

\* C15: a subscription first receives the snapshot current when Watch was
\* called; afterwards, while its inbox has room, it receives one new
\* snapshot for each change of the membership of the service or of the
\* healthy flag of a member, and none for an operation or a probe result
\* that changes neither.
C15_SnapshotPerChange ==
    [][\A c \in Chan :
         /\ (c = nchan' /\ nchan' # nchan /\ chans'[c].svc \in DOMAIN regServices) =>
              (chans'[c].queued = 1 /\ chans'[c].newest = regServices[chans'[c].svc])
         /\ (c \in Listed(chans[c].svc) /\ chans[c].queued < WatchBuffer) =>
              IF View(chans[c].svc)' # View(chans[c].svc)
              THEN chans'[c].queued = chans[c].queued + 1
              ELSE chans'[c].queued <= chans[c].queued]_vars

\* a step of Register, of Unregister or of the fold of a probe result that
\* calls notifyWatchers
Notifies ==
    \/ \E urlOk \in BOOLEAN : Announce(urlOk)
    \/ Unregister(InstanceID(ProxiedService, 1)) /\ regServices' # regServices
    \/ \E p \in Ptr : RegistryProbe(p) /\ inst'[p].healthy # inst[p].healthy

\* C16: Register, Unregister and the fold of a probe result never wait on a
\* subscriber: with an inbox full (10 snapshots) each of them can still be
\* taken, it leaves that inbox as it is, and every subscriber of the service
\* whose inbox has room gets the new snapshot.
C16_DropOnFull ==
    /\ [](/\ \A urlOk \in BOOLEAN : ENABLED Announce(urlOk)
          /\ ENABLED Unregister(InstanceID(ProxiedService, 1))
          /\ \A p \in regProbes : ENABLED RegistryProbe(p))
    /\ [][Notifies =>
            \A c \in Listed(ProxiedService) :
               IF chans[c].queued < WatchBuffer
               THEN /\ chans'[c].queued = chans[c].queued + 1
                    /\ chans'[c].newest = RegBucket(ProxiedService)'
               ELSE chans'[c] = chans[c]]_vars

\* one subscriber's inbox is full and the latest snapshot was sent to the
\* other subscriber only
C16_Witness ==
    \E c, d \in Listed(ProxiedService) :
       /\ chans[c].queued = WatchBuffer
       /\ chans[d].queued < WatchBuffer
       /\ chans[d].queued > 0
       /\ chans[d].newest = <<>>
       /\ chans[c].newest # <<>>

\* ------------------------------------------------------------------ claims on SpecCancel

AllListed == UNION {Listed(s) : s \in DOMAIN watchers}

\* C17: after the context given to Watch is cancelled the subscription is
\* eventually removed from the watcher list of the registry and its channel
\* is closed; a closed channel is not listed and nothing is sent on it.
C17_CancelTearsDown ==
    /\ \A c \in Chan : (chans[c].ctx = "done") ~> (c \notin AllListed /\ chans[c].closed)
    /\ [](\A c \in Chan : chans[c].closed => c \notin AllListed)
    /\ [][\A c \in Chan : chans[c].closed => chans'[c] = chans[c]]_vars
    /\ [](~panicked)

\* a subscription has been torn down and a later snapshot went to the other
\* subscriber, which is still listed
C17_Witness ==
    \E c, d \in Chan :
       /\ chans[c].closed
       /\ chans[c].stage = "closed"
       /\ d \in AllListed
       /\ c < d
       /\ chans[d].queued > chans[c].queued

\* ------------------------------------------------------------------ claims on SpecClose

\* C28: whatever the order of Close, the cancellations of Watch contexts and
\* the notifications, no goroutine closes a channel that is closed already
\* or sends on a closed channel.
C28_ChannelsClosedOnce == ~panicked

\* ------------------------------------------------------------------ claims on SpecAlias

\* C29: the instances of the slice a subscriber has received stay the ones
\* it held when it was received, whatever Register and Unregister calls
\* follow.
C29_SnapshotStable == Elements(backing, snapshot) = snapshot.seen

\* ------------------------------------------------------------------ claims on SpecShutdown

\* the channels Watch has made
Made == 1..nchan

\* C18: after Gateway.Shutdown no health-check loop, the gateway's or the
\* registry's, dispatches a further probe tick, and every watcher
\* subscription channel is closed. Stated for the states in which the
\* gateway's own loop has already seen the cancellation and returned.
C18_ShutdownStopsAll ==
    /\ [][gwStopped => (gwProbes' \subseteq gwProbes /\ regProbes' \subseteq regProbes)]_vars
    /\ [](gwStopped => \A c \in Made : chans[c].closed)

\* ------------------------------------------------------------------ claims on SpecRate

\* C20: when the requests arriving in a second exceed the configured
\* rateLimit, the excess requests are answered 429 and are not proxied: no
\* more than rateLimit requests a second are passed on, and a request that
\* arrives after rateLimit others gets 429 without a GetInstance call.
C20_ExcessRejected ==
    /\ [](admitted <= rateLimit)
    /\ [][(arrivals >= rateLimit /\ arrivals' = arrivals + 1) =>
            (done'.status = "429" /\ admitted' = admitted /\ last' = last)]_vars

\* ------------------------------------------------------------------ claims on SpecProxy

\* C19: a request handled by proxyRequest calls GetInstance at most once and
\* forwards to at most one instance: it is answered 503 when the selection
\* fails, 500 when the URL of the chosen instance does not parse and 502
\* when the round trip to the backend fails, and in none of these cases is
\* another instance selected or tried.
C19_NoFailover ==
    /\ [](/\ \A r \in Req : req[r].selects <= 1
          /\ done.selects <= 1 /\ done.forwards <= 1
          /\ done.status = "503" =>
                done.inst = Nil /\ done.selects = 1 /\ done.forwards = 0
          /\ done.status = "500" =>
                /\ done.inst # Nil /\ ~inst[done.inst].urlOk
                /\ done.selects = 1 /\ done.forwards = 0
          /\ done.event = "transport error" =>
                done.status = "502" /\ done.selects = 1 /\ done.forwards = 1
          /\ done.status = "502" => done.event = "transport error")
    /\ [][(done' # done /\ done'.status \in {"500", "502"}) =>
            /\ last' = last
            /\ \A r \in Req : req'[r] # req[r] => req'[r] = NoRequest]_vars

\* a request was answered 502 while another healthy instance of the service
\* stood by, and no request is in flight
C19_Witness ==
    /\ done.status = "502"
    /\ \E p \in Range(Bucket(ProxiedService)) : inst[p].healthy /\ p # done.inst
    /\ \A r \in Req : req[r] = NoRequest

\* ------------------------------------------------------------------ claims on SpecChain

\* the middlewares a request for the route has passed when it reaches
\* proxyRequest
ExpectedTrail(route) ==
    <<"security", "cors", "logging", "ratelimit">>
       \o (IF route \in Protected THEN <<"auth">> ELSE <<>>)

\* the request has reached proxyRequest's GetInstance call
Selected(r) == req[r].pc \in {"selected", "forwarding"}

\* C21: a request reaches the proxy step only after the middlewares in the
\* order security headers, CORS, logging, rate limit and, for the protected
\* prefixes, the bearer-token check; an OPTIONS preflight is answered 204 and
\* a protected request with a missing, malformed or invalid token 401,
\* neither with a GetInstance call or a change of a connections counter;
\* /api/v1/auth/* is proxied whatever its Authorization header.
C21_MiddlewareOrder ==
    /\ [](\A r \in Req :
            /\ Selected(r) =>
                 /\ req[r].trail = ExpectedTrail(req[r].route)
                 /\ req[r].method # "OPTIONS"
                 /\ req[r].route \in Protected =>
                      /\ req[r].auth.scheme = "Bearer "
                      /\ req[r].auth.token \notin {"", "invalid", "expired"}
                      /\ Len(req[r].auth.token) > 10
            /\ req[r].pc # "idle" =>
                 \E n \in 0..Len(ExpectedTrail(req[r].route)) :
                    req[r].trail = SubSeq(ExpectedTrail(req[r].route), 1, n))
    /\ [](done.status \in {"204", "401"} => done.selects = 0 /\ done.inst = Nil)
    /\ [][\A r \in Req :
            /\ (req[r].pc = "cors" /\ req[r].method = "OPTIONS" /\ req'[r] # req[r]) =>
                 done'.status = "204"
            /\ (/\ req[r].pc = "admitted" /\ req[r].route \in Protected
                /\ AuthVerdict(req[r].auth) # "ok" /\ req'[r] # req[r]) =>
                 done'.status = "401"
            /\ (req[r].pc = "admitted" /\ req[r].route \notin Protected
                /\ req'[r] # req[r]) =>
                 (Selected(r)' \/ done'.status = "503")
            /\ (done' # done /\ done'.status \in {"204", "401"}) =>
                 (last' = last /\ \A p \in Ptr : inst'[p].conn = inst[p].conn)]_vars

\* a request for /api/v1/auth/* without an Authorization header is being
\* forwarded, after a preflight or a refused request was answered
C21_Witness ==
    /\ done.status \in {"204", "401"}
    /\ \E r \in Req :
         /\ req[r].pc = "forwarding"
         /\ req[r].route = "auth"
         /\ req[r].auth = NoAuth

\* ------------------------------------------------------------------ claims on SpecLoad

\* the file parses and every key it names is in the range validation accepts
WellFormed(text) ==
    /\ text.yaml
    /\ text.port.set => text.port.v \in 1..MaxPort
    /\ text.timeout.set => text.timeout.v > 0
    /\ text.rate_limit.set => text.rate_limit.v >= 0
    /\ \A n \in DOMAIN text.services.v :
          /\ text.services.v[n].url.set /\ text.services.v[n].url.v # ""
          /\ text.services.v[n].weight.set => text.services.v[n].weight.v >= 0

\* a key's value in the file, its default when the file does not name it
OrDefault(field, default) == IF field.set THEN field.v ELSE default

\* the configuration a file stands for: the keys it names, defaults elsewhere
WithDefaults(text) ==
    [Port |-> OrDefault(text.port, DefaultPort),
     Timeout |-> OrDefault(text.timeout, DefaultTimeout),
     RateLimit |-> OrDefault(text.rate_limit, DefaultRateLimit),
     Services |-> [nil |-> ~text.services.set,
                   m |-> [n \in DOMAIN text.services.v |->
                            [URL |-> text.services.v[n].url.v,
                             Weight |-> OrDefault(text.services.v[n].weight,
                                                  DefaultWeight)]]],
     Strategy |-> OrDefault(text.strategy, DefaultStrategy),
     CheckInterval |-> OrDefault(text.check_interval, DefaultCheckInterval),
     CheckTimeout |-> OrDefault(text.check_timeout, DefaultCheckTimeout)]

\* C22: a load of a modified, well-formed file succeeds, and the active
\* configuration then has every key the file names at its value and every
\* other key at its default: port 8080 and timeout 30s when the file leaves
\* them out.
C22_DefaultsAfterValidation ==
    [][(WatchConfig /\ cfgFile.mtime # cmLastModified /\ WellFormed(cfgFile.text))
       => /\ cmReturn'.err = ErrNone
          /\ cfgHeap'[cmConfig'] = WithDefaults(cfgFile.text)]_vars

\* LoadConfig gets through Unmarshal and validateConfig on the file
Loadable(text) == text.yaml /\ validateConfig(Unmarshal(text))

\* C23: a reload replaces the active configuration and the stored
\* modification time exactly when the file's modification time differs from
\* the stored one and the file parses and validates; otherwise the active
\* configuration, its fields and the stored time stay and no watcher is
\* notified, and a failed reload returns an error after which the reload
\* loop is still running.
C23_ReloadOnlyOnChange ==
    /\ []((cmReturn.op = "load" /\ cmReturn.err # ErrNone) => ENABLED WatchConfig)
    /\ [][WatchConfig =>
            IF cfgFile.mtime # cmLastModified /\ Loadable(cfgFile.text)
            THEN /\ cmConfig' # cmConfig
                 /\ cfgHeap'[cmConfig'] = setDefaults(Unmarshal(cfgFile.text))
                 /\ cmLastModified' = cfgFile.mtime
                 /\ cmReturn' = CallReturned("load", ErrNone, cmWatchers)
            ELSE /\ cmConfig' = cmConfig
                 /\ cfgHeap'[cmConfig'] = cfgHeap[cmConfig]
                 /\ cmLastModified' = cmLastModified
                 /\ cmReturn'.notified = 0
                 /\ (cmReturn'.err = ErrNone) <=> (cfgFile.mtime = cmLastModified)]_vars

\* a reload has failed on an invalid file, after an earlier reload replaced
\* the configuration, with a watcher registered
C23_Witness ==
    /\ cmReturn = CallReturned("load", ErrValidation, 0)
    /\ cmWatchers > 0
    /\ cmLastModified > FirstMtime
    /\ cfgFile.mtime > cmLastModified

\* ------------------------------------------------------------------ claims on SpecConfig

\* C24: the fields of the GatewayConfig a GetConfig call returned stay as
\* the caller read them, whatever Load, Update, AddService and RemoveService
\* calls follow.
C24_HeldConfigImmutable ==
    held.ptr # Nil => cfgHeap[held.ptr] = held.seen

\* C30: an UpdateConfig call that returns an error leaves the active
\* configuration as it was before the call and notifies no watcher.
C30_FailedUpdateKeepsConfig ==
    [][((\E config \in Candidates, written \in BOOLEAN : UpdateConfig(config, written))
        /\ cmReturn'.err # ErrNone)
       => /\ cmConfig' = cmConfig
          /\ cfgHeap'[cmConfig'] = cfgHeap[cmConfig]
          /\ cmReturn'.notified = 0]_vars

\* ------------------------------------------------------------------ claims on SpecConc

\* GetInstance calls that have returned
Returned == started - Cardinality({g \in Proc : InGetInstance(g)})

\* C1: under round-robin every successful selection advances the cursor of
\* the service exactly once, whatever the interleaving of the callers: once
\* n selections on k healthy instances have returned and none is under way,
\* the cursor has advanced by n modulo k.
C1_CursorAdvancesOncePerSelect ==
    (\A g \in Proc : ~InGetInstance(g)) =>
        counters[ProxiedService] = (cursor0 + Returned) % Len(ConcHealthy)

\* C3: for every interleaving of selections and releases, the connections
\* counter of an instance is the number of selections that returned it less
\* the number of releases applied to it.
C3_ConnectionsAccount ==
    \A p \in Ptr : inst[p].conn = acct[p].selected - acct[p].released

\* ------------------------------------------------------------------ claims on SpecLock

\* C25: a health probe writes an instance's healthy flag only while it has
\* the load balancer's lock for writing, that is while no goroutine is inside
\* GetInstance holding the lock for reading.
C25_HealthWrittenUnderLock ==
    [][(\E p \in Ptr : checkServiceHealth(p) \/ RegistryProbe(p))
       => \A g \in Proc : ~InGetInstance(g)]_vars

\* ------------------------------------------------------------------ claims on SpecProbes

\* C26: the probes of an instance write its health state in the order of
\* their answers: a probe never writes over the state left by a probe whose
\* answer is more recent than its own.
C26_NoStaleOverwrite ==
    [][\A f \in flights : ProbeFold(f.id) => f.at > asOf[f.p]]_vars

\* ------------------------------------------------------------------ claims on SpecStrategy

\* the healthy instances of the service, in bucket order
HealthyList == SelectSeq(Bucket(ProxiedService), LAMBDA p : inst[p].healthy)

\* C11: under least-connections a selection returns the first instance, in
\* bucket order, among the healthy instances whose connections (read before
\* the increment of this selection) equal the minimum over the healthy
\* instances of the bucket.
C11_LeastConnectionsFirstMinimum ==
    [][(strategy = LeastConn /\ last'.op = "GetInstance" /\ last'.err = ErrNone) =>
         \E i \in 1..Len(HealthyList) :
            /\ last'.res = HealthyList[i]
            /\ \A j \in 1..Len(HealthyList) :
                 inst[HealthyList[j]].conn >= inst[HealthyList[i]].conn
            /\ \A j \in 1..(i - 1) :
                 inst[HealthyList[j]].conn > inst[HealthyList[i]].conn]_vars

\* a least-connections selection that passed over an earlier instance holding
\* more connections while a later one tied with the instance returned
C11_Witness ==
    /\ strategy = LeastConn
    /\ last.op = "GetInstance"
    /\ last.err = ErrNone
    /\ \E i, j, k \in 1..Len(HealthyList) :
         /\ i < j /\ j < k
         /\ HealthyList[j] = last.res
         /\ inst[HealthyList[i]].conn > last.before
         /\ inst[HealthyList[k]].conn = last.before

\* the weight of the first i instances of a list
RECURSIVE CumulativeWeight(_, _)
CumulativeWeight(l, i) ==
    IF i = 0 THEN 0 ELSE inst[l[i]].weight + CumulativeWeight(l, i - 1)

\* the draws of 0..total-1 for which weighted returns the instance
DrawsReturning(l, p) ==
    {r \in 0..(CumulativeWeight(l, Len(l)) - 1) : weighted(l, r) = p}

\* C12: under the weighted strategy with healthy instances of weights
\* w_1..w_n and a positive total, a selection with draw r in [0, total)
\* returns the first instance i with w_1+...+w_i > r, so instance i is
\* returned for exactly w_i of the draws and an instance of weight 0 for
\* none; with a total of 0 any healthy instance may be returned.
C12_WeightedCumulative ==
    [][(strategy = Weighted /\ last'.op = "GetInstance" /\ last'.err = ErrNone) =>
         LET total == CumulativeWeight(HealthyList, Len(HealthyList)) IN
         IF total > 0
         THEN /\ last'.draw \in 0..(total - 1)
              /\ \E i \in 1..Len(HealthyList) :
                   /\ last'.res = HealthyList[i]
                   /\ CumulativeWeight(HealthyList, i) > last'.draw
                   /\ \A j \in 1..(i - 1) :
                        CumulativeWeight(HealthyList, j) <= last'.draw
              /\ inst[last'.res].weight > 0
              /\ \A i \in 1..Len(HealthyList) :
                   Cardinality(DrawsReturning(HealthyList, HealthyList[i]))
                     = inst[HealthyList[i]].weight
         ELSE last'.res \in Range(HealthyList)]_vars

\* a weighted selection that walked past an instance of weight 0 and one of
\* positive weight before it returned an instance of weight MaxWeight
C12_Witness ==
    /\ strategy = Weighted
    /\ last.op = "GetInstance"
    /\ last.err = ErrNone
    /\ inst[last.res].weight = MaxWeight
    /\ \E i, j, k \in 1..Len(HealthyList) :
         /\ i # j /\ i < k /\ j < k
         /\ HealthyList[k] = last.res
         /\ inst[HealthyList[i]].weight = 0
         /\ inst[HealthyList[j]].weight > 0
         /\ last.draw >= inst[HealthyList[j]].weight

\* ------------------------------------------------------------------ claims on SpecGateway

\* C4: every proxied request whose selection succeeded releases the selected
\* instance exactly once before it returns, whatever its outcome, so that
\* every instance has connections = 0 while no proxied request is in flight.
C4_ReleaseOnEveryReturn ==
    /\ done.inst # Nil => done.releases = 1
    /\ (\A r \in Req : req[r].pc = "idle") => \A p \in Ptr : inst[p].conn = 0

\* C5: once the management unregister call has been made for a service, a
\* selection does not return an instance that was tracked for it then.
C5_UnregisteredNotSelected ==
    [][\A r \in Req :
         (req[r].pc = "idle" /\ req'[r].pc = "selected") => req'[r].inst \notin unregd]_vars

NoDuplicateID(buckets) ==
    \A s \in DOMAIN buckets : \A i, j \in 1..Len(buckets[s]) :
        i # j => inst[buckets[s][i]].id # inst[buckets[s][j]].id

\* C6: after any sequence of registrations no bucket of the load balancer
\* and no bucket of the registry holds two instances with the same id.
C6_UniqueIDs == NoDuplicateID(lbServices) /\ NoDuplicateID(regServices)

\* ------------------------------------------------------------------ claims on SpecWeights

\* the instances in the buckets of the load balancer
Tracked == UNION {Range(lbServices[s]) : s \in DOMAIN lbServices}

\* C13: every instance tracked by the load balancer has weight >= 0, and an
\* instance registered with no explicit weight, by the configuration seed
\* or by the management register endpoint, has weight 1; so the total weight
\* the weighted strategy computes over a bucket is never negative.
C13_WeightsDefaulted ==
    /\ \A p \in Tracked : inst[p].weight >= 0
    /\ \A p \in Tracked \cap unweighted : inst[p].weight = 1
    /\ \A s \in DOMAIN lbServices : TotalWeight(HealthyInstances(lbServices[s])) >= 0

\* ------------------------------------------------------------------ claims on SpecHealth

\* C7: with health checking enabled every instance tracked in a bucket of the
\* load balancer is probed on each tick: when its health endpoint has stopped
\* answering 200, a tick has followed and the probes in flight have
\* completed, the instance is no longer one a selection can return.
C7_DownInstanceExcludedAfterTick ==
    \A s \in DOMAIN lbServices : \A p \in Range(lbServices[s]) :
        (phase[p] = "ticked" /\ gwProbes = {} /\ regProbes = {})
            => p \notin Range(HealthyInstances(lbServices[s]))

\* C27: a completed probe of an instance, of the Gateway's loop or of the
\* registry's, leaves healthy = FALSE and failureCount one higher when it
\* failed, and healthy = TRUE and failureCount = 0 when it succeeded.
C27_FailureCountFollowsProbes ==
    [][\A p \in Ptr :
         (checkServiceHealth(p) \/ RegistryProbe(p)) =>
            IF ProbeSucceeds(p)
            THEN inst'[p].healthy /\ inst'[p].failureCount = 0
            ELSE ~inst'[p].healthy /\ inst'[p].failureCount = inst[p].failureCount + 1]_vars

\* ------------------------------------------------------------------ claims on Spec

Occurrences(w, a, b, p) == Cardinality({i \in a..b : w[i] = p})

\* C2: under round-robin, while the healthy instances of a service stay the
\* same, consecutive selections return them in bucket order, cyclically, and
\* any N consecutive selections return each of the k healthy instances
\* floor(N/k) or ceil(N/k) times, whatever the cursor was before the first.
C2_RoundRobinFair ==
    LET hl == HealthyInstances(Bucket(ProxiedService))
        k == Len(hl)
        w == rrWindow
    IN  w # <<>> =>
          /\ k > 0
          /\ Range(w) \subseteq Range(hl)
          /\ \A i \in 1..(Len(w) - 1) :
                PosIn(hl, w[i + 1]) = (PosIn(hl, w[i]) % k) + 1
          /\ \A a \in 1..Len(w) : \A b \in a..Len(w) : \A j \in 1..k :
                Occurrences(w, a, b, hl[j])
                    \in {(b - a + 1) \div k, (b - a + k) \div k}

\* a full window of selections over at least two healthy instances, taken
\* while the bucket also holds an unhealthy instance
C2_Witness ==
    /\ Len(rrWindow) = MaxWindow
    /\ Len(HealthyInstances(Bucket(ProxiedService))) >= 2
    /\ Len(Bucket(ProxiedService)) > Len(HealthyInstances(Bucket(ProxiedService)))

HealthySet(s) == {p \in Range(Bucket(s)) : inst[p].healthy}

\* C8: a selection returns only an instance whose healthy flag is set when
\* the selection is made, and it succeeds whenever the bucket holds a healthy
\* instance: an instance marked unhealthy is not returned, and one marked
\* healthy again is eligible for the next selection.
C8_SelectOnlyHealthy ==
    [][last'.op = "GetInstance" =>
         /\ last'.err = ErrNone => last'.res \in HealthySet(last'.svc)
         /\ HealthySet(last'.svc) # {} => last'.err = ErrNone]_vars

\* a selection has returned an instance while another instance of the bucket
\* is marked unhealthy
C8_Witness ==
    /\ last.op = "GetInstance"
    /\ last.err = ErrNone
    /\ \E q \in Range(Bucket(last.svc)) : q # last.res /\ ~inst[q].healthy

\* C9: a selection on an unknown service or an empty bucket fails with
\* NoInstances, one on a bucket without a healthy instance fails with
\* NoHealthyInstances, and a failed selection changes neither the cursor
\* nor any connections counter.
C9_FailedSelect ==
    [][last'.op = "GetInstance" =>
         LET s == last'.svc IN
         /\ (s \notin DOMAIN lbServices \/ Bucket(s) = <<>>)
               => last'.err = ErrNoInstances
         /\ (Bucket(s) # <<>> /\ HealthySet(s) = {})
               => last'.err = ErrNoHealthy
         /\ last'.err # ErrNone =>
               /\ counters' = counters
               /\ \A p \in Ptr : inst'[p].conn = inst[p].conn]_vars

\* a selection has failed for want of a healthy instance, with the cursor
\* advanced and a connection held from earlier selections
C9_Witness ==
    /\ last.op = "GetInstance"
    /\ last.err = ErrNoHealthy
    /\ counters[last.svc] > 0
    /\ \E p \in Ptr : inst[p].conn > 0

\* C10: connections is never negative; a successful selection adds one to
\* the counter of the instance it returns, a release takes one from a
\* positive counter and leaves a counter of 0 at 0.
C10_ConnectionsNonNegative ==
    /\ [](\A p \in Ptr : inst[p].conn >= 0)
    /\ [][/\ (last'.op = "GetInstance" /\ last'.err = ErrNone)
               => inst'[last'.res].conn = inst[last'.res].conn + 1
          /\ last'.op = "ReleaseConnection"
               => inst'[last'.res].conn =
                    IF inst[last'.res].conn > 0 THEN inst[last'.res].conn - 1 ELSE 0]_vars

\* a release has been applied to a counter that was already 0
C10_Witness ==
    /\ last.op = "ReleaseConnection"
    /\ last.before = 0
    /\ inst[last.res].conn = 0

====
